---------------------------- MODULE Spec2Model ----------------------------
(***************************************************************************)
(* A model of the FIPI task-bank scraper (fipilib/ and the older src/      *)
(* package): the submitter that posts an answer and classifies the one-    *)
(* character reply, the answer formatters, the subject registry, the       *)
(* per-page fragment extraction and the multi-page runs.                   *)
(*                                                                         *)
(* Python strings are sequences of one-character strings, so that strip,   *)
(* replace and join are computed character by character.  An Optional     *)
(* field holds None or Some(v).                                            *)
(***************************************************************************)
EXTENDS Integers, Sequences, FiniteSets, TLC

VARIABLES
    ckReq,      \* the submission being made: checker, task, caller value, what the portal will do
    ckPc,       \* "ready" before the call, "returned" after it
    ckOut,      \* what the submission gave back to its caller
    net,        \* the network events of the submission, in order ("POST", "sleep")
    fmReq,      \* the formatter being applied and its arguments
    fmPc,       \* "ready" before the formatter ran, "returned" after it
    fmOut,      \* what the formatter gave back
    prParser,   \* the parser parse_page runs on
    prBlocks,   \* the task fragments (div.qblock) of the listing page, in document order
    prPc,       \* "parsing" inside the loop of parse_page, "done" / "raised" after it
    prLog,      \* what parse_task_block gave for each fragment handled so far
    prTasks,    \* tasks, the list parse_page builds
    _PARSERS,   \* the parser registry of fipilib.subjects
    _CHECKERS,  \* the checker registry of fipilib.subjects
    fcRegs,     \* register_* calls made since the package was imported
    fcReq,      \* the construction being requested
    fcPc,       \* "ready" before the request is served, "returned" after
    fcOut,      \* the object returned or the exception raised
    fcTrace,    \* sessions created, cookies loaded, requests made while serving it
    pgRun,      \* the multi-page run: which function, with which arguments
    pgPc,       \* "count", "loop" or "returned"
    pgPage,     \* the page variable of the loop
    pgEmpty,    \* empty_pages of parse_all_tasks
    pgAll,      \* all_tasks
    pgReqs,     \* the listing requests made so far, with what came back
    pgPortal,   \* what the portal serves during the run
    lcParser,   \* the parser a Task is followed with
    lcCreated,  \* the Task as the Task(...) call made it
    lcTask,     \* the Task object now
    lcPc,       \* "created", "parsed", "localized", "saved" or "save failed"
    svRun,      \* the parse_and_save call: the parser's class, download_images, what the page gives
    svPc,       \* "ready" before the call, "loop" inside "for idx, task in enumerate(tasks, 1)", "returned"
    svLog,      \* what happened to each task handled so far: the task before and after, the outcomes
    svSaved,    \* saved_tasks
    ptReq,      \* the Task being converted or stored, and by which calls
    ptPc,       \* "ready" before the calls, "returned" after them
    ptOut       \* the Task that came back, or the exception

checkVars == <<ckReq, ckPc, ckOut, net>>
formatVars == <<fmReq, fmPc, fmOut>>
parseVars == <<prParser, prBlocks, prPc, prLog, prTasks>>
factoryVars == <<_PARSERS, _CHECKERS, fcRegs, fcReq, fcPc, fcOut, fcTrace>>
pagesVars == <<pgRun, pgPc, pgPage, pgEmpty, pgAll, pgReqs, pgPortal>>
lifecycleVars == <<lcParser, lcCreated, lcTask, lcPc>>
saveVars == <<svRun, svPc, svLog, svSaved>>
persistVars == <<ptReq, ptPc, ptOut>>
vars == <<ckReq, ckPc, ckOut, net, fmReq, fmPc, fmOut,
          prParser, prBlocks, prPc, prLog, prTasks,
          _PARSERS, _CHECKERS, fcRegs, fcReq, fcPc, fcOut, fcTrace,
          pgRun, pgPc, pgPage, pgEmpty, pgAll, pgReqs, pgPortal,
          lcParser, lcCreated, lcTask, lcPc,
          svRun, svPc, svLog, svSaved, ptReq, ptPc, ptOut>>

\* Optional values: None, or Some(v)
None == [some |-> FALSE]
Some(v) == [some |-> TRUE, v |-> v]

-----------------------------------------------------------------------------
(* Bounds of the model *)

MaxBodyLen == 2         \* characters in a grading response body
MaxVariants == 5        \* options of a multiple-choice task
MaxIndices == 2         \* indices a caller selects
MaxDictLen == 2         \* entries of a letter-to-number mapping
MaxStrLen == 3          \* characters of a free-text answer
MaxFragments == 2       \* task fragments on a listing page

-----------------------------------------------------------------------------
(* Strings *)

\* The characters str.strip() removes (those of the model's alphabets).
Whitespace == {" ", "\t", "\n"}

RECURSIVE LStrip(_)
LStrip(s) ==
    IF s = <<>> THEN <<>>
    ELSE IF Head(s) \in Whitespace THEN LStrip(Tail(s)) ELSE s

RECURSIVE RStrip(_)
RStrip(s) ==
    IF s = <<>> THEN <<>>
    ELSE IF s[Len(s)] \in Whitespace THEN RStrip(SubSeq(s, 1, Len(s) - 1)) ELSE s

\* str.strip()
Strip(s) == RStrip(LStrip(s))

\* All sequences over S of length at most n.
SeqsUpTo(S, n) == UNION {[1..k -> S] : k \in 0..n}

-----------------------------------------------------------------------------
(* Python values a caller can pass as an answer *)

PyStrVal(s)  == [kind |-> "str", s |-> s]      \* a str
PyIntVal(n)  == [kind |-> "int", n |-> n]      \* an int
PyListVal(xs) == [kind |-> "list", xs |-> xs]    \* a list of str/int values
PyDictVal(kv) == [kind |-> "dict", kv |-> kv]    \* a dict: its items in insertion order
Item(k, x) == [k |-> k, val |-> x]              \* one item of a dict: a str key and its value

Digits == <<"0", "1", "2", "3", "4", "5", "6", "7", "8", "9">>
IsDigit(c) == \E d \in 1..10 : Digits[d] = c

RECURSIVE NatToStr(_)
NatToStr(n) ==
    IF n < 10 THEN <<Digits[n + 1]>>
    ELSE NatToStr(n \div 10) \o <<Digits[(n % 10) + 1]>>

\* str() of an int
IntToStr(n) == IF n < 0 THEN <<"-">> \o NatToStr(0 - n) ELSE NatToStr(n)

\* repr() of a str or an int, as it appears inside str() of a list or dict
PyRepr(x) == IF x.kind = "str" THEN <<"'">> \o x.s \o <<"'">> ELSE IntToStr(x.n)

RECURSIVE JoinWith(_, _)
JoinWith(sep, parts) ==
    IF parts = <<>> THEN <<>>
    ELSE IF Len(parts) = 1 THEN parts[1]
    ELSE parts[1] \o sep \o JoinWith(sep, Tail(parts))

\* str(user_input)
PyStr(x) ==
    CASE x.kind = "str"  -> x.s
      [] x.kind = "int"  -> IntToStr(x.n)
      [] x.kind = "list" ->
            <<"[">> \o JoinWith(<<",", " ">>, [i \in 1..Len(x.xs) |-> PyRepr(x.xs[i])]) \o <<"]">>
      [] x.kind = "dict" ->
            <<"{">> \o JoinWith(<<",", " ">>,
                [i \in 1..Len(x.kv) |->
                    PyRepr(PyStrVal(x.kv[i].k)) \o <<":", " ">> \o PyRepr(x.kv[i].val)])
            \o <<"}">>

\* str.replace(old, new) for a one-character old
RECURSIVE Replace(_, _, _)
Replace(s, old, new) ==
    IF s = <<>> THEN <<>>
    ELSE (IF Head(s) = old THEN new ELSE <<Head(s)>>) \o Replace(Tail(s), old, new)

\* What a call gives back: a value, or an exception that leaves the function.
Returned(v) == [ok |-> TRUE, v |-> v]
Raised(e)   == [ok |-> FALSE, exc |-> e]

-----------------------------------------------------------------------------
(* Answer formatting *)

\* Code points of the characters dict keys are made of.
\* ("cyrA", "cyrBe", "cyrVe" are the Cyrillic capitals U+0410, U+0411, U+0412;
\* "A" and "B" the Latin ones.)
Ord(c) ==
    CASE c = "A" -> 65 [] c = "B" -> 66
      [] c = "cyrA" -> 1040 [] c = "cyrBe" -> 1041 [] c = "cyrVe" -> 1042

\* a < b for str: lexicographic by code point
RECURSIVE StrLess(_, _)
StrLess(a, b) ==
    IF b = <<>> THEN FALSE
    ELSE IF a = <<>> THEN TRUE
    ELSE IF Ord(Head(a)) # Ord(Head(b)) THEN Ord(Head(a)) < Ord(Head(b))
    ELSE StrLess(Tail(a), Tail(b))

RECURSIVE InsertSorted(_, _)
InsertSorted(k, ks) ==
    IF ks = <<>> THEN <<k>>
    ELSE IF StrLess(k, Head(ks)) THEN <<k>> \o ks
    ELSE <<Head(ks)>> \o InsertSorted(k, Tail(ks))

RECURSIVE SortedKeysFrom(_)
SortedKeysFrom(keys) ==
    IF keys = <<>> THEN <<>>
    ELSE InsertSorted(Head(keys), SortedKeysFrom(Tail(keys)))

\* dict.keys(), in insertion order
DictKeys(kv) == [i \in 1..Len(kv) |-> kv[i].k]

\* sorted(user_input.keys())
UnsortedKeys(kv) == DictKeys(kv)
SortedKeys(kv) == SortedKeysFrom(DictKeys(kv))

\* user_input[letter]
DictGet(kv, k) == kv[CHOOSE i \in 1..Len(kv) : kv[i].k = k].val

\* ''.join(str(user_input[letter]) for letter in sorted_letters)
format_matching_answer(kv) ==
    LET ks == SortedKeys(kv)
    IN  JoinWith(<<>>, [i \in 1..Len(ks) |-> PyStr(DictGet(kv, ks[i]))])

\* for idx in indices: if 0 <= idx < total: bits[idx] = '1'
RECURSIVE MarkBitsWrapping(_, _)
MarkBitsWrapping(bits, xs) ==
    IF xs = <<>> THEN bits
    ELSE LET idx == Head(xs)
             at  == IF idx < 0 THEN Len(bits) + idx ELSE idx
         IN  MarkBitsWrapping(
                IF idx < Len(bits) /\ 0 <= at THEN [bits EXCEPT ![at + 1] = "1"] ELSE bits,
                Tail(xs))

RECURSIVE MarkBits(_, _)
MarkBits(bits, xs) ==
    IF xs = <<>> THEN bits
    ELSE LET idx == Head(xs)
         IN  MarkBits(
                IF 0 <= idx /\ idx < Len(bits) THEN [bits EXCEPT ![idx + 1] = "1"] ELSE bits,
                Tail(xs))

\* AnswerHelper.indices_to_binary_string(indices, total)
indices_to_binary_string(indices, total) ==
    MarkBits([i \in 1..total |-> "0"], indices)

\* What "for idx in user_input: if 0 <= idx < n" does with a caller value that
\* is not a str: an int is not iterable, a dict iterates its (str) keys, and a
\* str element cannot be compared with an int.
IterIndices(u) ==
    CASE u.kind = "int"  -> Raised("TypeError")
      [] u.kind = "dict" ->
            IF u.kv = <<>> THEN Returned(<<>>) ELSE Raised("TypeError")
      [] u.kind = "list" ->
            IF \E i \in 1..Len(u.xs) : u.xs[i].kind # "int" THEN Raised("TypeError")
            ELSE Returned([i \in 1..Len(u.xs) |-> u.xs[i].n])

\* len(task.answer_variants) if task.answer_variants else 5
FallbackWidth == 5
NumVariants(task) ==
    IF task.answer_variants.some /\ task.answer_variants.v # <<>>
    THEN Len(task.answer_variants.v) ELSE FallbackWidth

\* DefaultChecker._format_short_answer
DefaultFormatShortAnswer(u) == Strip(PyStr(u))

\* DefaultChecker._format_multiple_choice
FormatMultipleChoiceStripping(task, u) ==
    IF u.kind = "str" THEN Returned(Strip(u.s))
    ELSE LET it == IterIndices(u)
         IN  IF ~it.ok THEN it
             ELSE Returned(MarkBits([i \in 1..NumVariants(task) |-> "0"], it.v))
DefaultFormatMultipleChoice(task, u) ==
    IF u.kind = "str" THEN Returned(u.s)
    ELSE LET it == IterIndices(u)
         IN  IF ~it.ok THEN it
             ELSE Returned(MarkBits([i \in 1..NumVariants(task) |-> "0"], it.v))

\* DefaultChecker._format_matching
DefaultFormatMatching(u) ==
    CASE u.kind = "str"  -> u.s
      [] u.kind = "dict" -> format_matching_answer(u.kv)
      [] u.kind = "list" -> JoinWith(<<>>, [i \in 1..Len(u.xs) |-> PyStr(u.xs[i])])
      [] OTHER           -> PyStr(u)

\* DefaultChecker.format_answer
DefaultFormatAnswer(task, u) ==
    CASE task.task_type = "short_answer"    -> Returned(DefaultFormatShortAnswer(u))
      [] task.task_type = "multiple_choice" -> DefaultFormatMultipleChoice(task, u)
      [] task.task_type = "matching"        -> Returned(DefaultFormatMatching(u))
      [] OTHER                              -> Returned(PyStr(u))

\* MathProfChecker._format_math_short_answer: strip, ',' -> '.', drop ' '
MathFormatKeepingSpaces(u) == Replace(Strip(PyStr(u)), ",", <<".">>)
_format_math_short_answer(u) ==
    Replace(Replace(Strip(PyStr(u)), ",", <<".">>), " ", <<>>)

\* PhysicsChecker._format_physics_short_answer: the same three steps
_format_physics_short_answer(u) ==
    Replace(Replace(Strip(PyStr(u)), ",", <<".">>), " ", <<>>)

\* MathProfChecker.format_answer
MathFormatAnswer(task, u) ==
    IF task.task_type = "short_answer" THEN Returned(_format_math_short_answer(u))
    ELSE DefaultFormatAnswer(task, u)

\* PhysicsChecker.format_answer
PhysicsFormatAnswer(task, u) ==
    IF task.task_type = "short_answer" THEN Returned(_format_physics_short_answer(u))
    ELSE DefaultFormatAnswer(task, u)

\* re.sub(r'\s+', ' ', answer)
RECURSIVE CollapseWhitespace(_)
CollapseWhitespace(s) ==
    IF s = <<>> THEN <<>>
    ELSE IF Head(s) \in Whitespace THEN <<" ">> \o CollapseWhitespace(LStrip(s))
    ELSE <<Head(s)>> \o CollapseWhitespace(Tail(s))

\* RussianChecker._format_russian_short_answer
_format_russian_short_answer(u) == CollapseWhitespace(Strip(PyStr(u)))

\* RussianChecker.format_answer
RussianFormatAnswer(task, u) ==
    IF task.task_type = "short_answer" THEN Returned(_format_russian_short_answer(u))
    ELSE DefaultFormatAnswer(task, u)

\* The pieces of the validation patterns: \d+, -?, \d+([.,]\d+)?, [+-]?,
\* [a-zA-Z and the Cyrillic letters]+ (the letters are those among the
\* characters answers are made of here).
IsDigits(s) == s # <<>> /\ \A i \in 1..Len(s) : IsDigit(s[i])
DropMinus(s) == IF s # <<>> /\ Head(s) = "-" THEN Tail(s) ELSE s
DropSign(s) == IF s # <<>> /\ Head(s) \in {"+", "-"} THEN Tail(s) ELSE s
Before(s, k) == SubSeq(s, 1, k - 1)
After(s, k) == SubSeq(s, k + 1, Len(s))
IsDecimal(s) ==
    \/ IsDigits(s)
    \/ \E k \in 1..Len(s) :
           s[k] \in {".", ","} /\ IsDigits(Before(s, k)) /\ IsDigits(After(s, k))
IsLetter(c) == c \in {"e", "E", "x", "cyr_a", "cyrA"}
IsLetters(s) == s # <<>> /\ \A i \in 1..Len(s) : IsLetter(s[i])

\* re.match(r'^-?\d+([.,]\d+)?$', answer_str)
MatchesNumber(s) == IsDecimal(DropMinus(s))

\* re.match(r'^-?\d+/\d+$', answer_str)
MatchesFraction(s) ==
    LET u == DropMinus(s) IN
    \E k \in 1..Len(u) : u[k] = "/" /\ IsDigits(Before(u, k)) /\ IsDigits(After(u, k))

\* re.match(r'^-?\d+([.,]\d+)?([eE][+-]?\d+)?$', answer_str)
MatchesScientific(s) ==
    LET u == DropMinus(s) IN
    \/ IsDecimal(u)
    \/ \E k \in 1..Len(u) :
           u[k] \in {"e", "E"} /\ IsDecimal(Before(u, k)) /\ IsDigits(DropSign(After(u, k)))

\* BaseChecker.validate_answer_format
validate_answer_format(task, u) == TRUE

\* MathProfChecker.validate_answer_format
MathValidateAnswerFormat(task, u) ==
    IF task.task_type = "short_answer"
    THEN LET answer_str == Strip(PyStr(u)) IN
         MatchesNumber(answer_str) \/ MatchesFraction(answer_str) \/ IsDigits(answer_str)
    ELSE validate_answer_format(task, u)

\* PhysicsChecker.validate_answer_format
PhysicsValidateAnswerFormat(task, u) ==
    IF task.task_type = "short_answer"
    THEN LET answer_str == Strip(PyStr(u)) IN
         MatchesScientific(answer_str) \/ IsLetters(answer_str)
    ELSE validate_answer_format(task, u)

\* RussianChecker.validate_answer_format
RussianValidateWithoutStrip(task, u) ==
    IF task.task_type = "short_answer"
    THEN Len(PyStr(u)) > 0
    ELSE validate_answer_format(task, u)
RussianValidateAnswerFormat(task, u) ==
    IF task.task_type = "short_answer"
    THEN Len(Strip(PyStr(u))) > 0
    ELSE validate_answer_format(task, u)

\* The validate_answer_format of the checker's class.
ValidateAnswerFormatOf(checker, task, u) ==
    CASE checker = "MathProfChecker" -> MathValidateAnswerFormat(task, u)
      [] checker = "PhysicsChecker"  -> PhysicsValidateAnswerFormat(task, u)
      [] checker = "RussianChecker"  -> RussianValidateAnswerFormat(task, u)
      [] OTHER                       -> validate_answer_format(task, u)

\* FIPIChecker.format_answer_for_check
FIPIFormatAnswerForCheck(task, u) ==
    CASE task.task_type = "short_answer" -> Returned(Strip(PyStr(u)))
      [] task.task_type = "multiple_choice" ->
            IF ~task.answer_variants.some \/ task.answer_variants.v = <<>>
            THEN Raised("ValueError")
            ELSE IF u.kind = "str" THEN Returned(u.s)
            ELSE LET it == IterIndices(u)
                 IN  IF ~it.ok THEN it
                     ELSE Returned(MarkBits([i \in 1..Len(task.answer_variants.v) |-> "0"], it.v))
      [] task.task_type = "matching" -> Returned(DefaultFormatMatching(u))
      [] OTHER -> Returned(PyStr(u))

\* StandaloneChecker._format_answer
StandaloneFormatAnswer(task, u) ==
    CASE task.task_type = "short_answer"    -> Returned(Strip(PyStr(u)))
      [] task.task_type = "multiple_choice" -> DefaultFormatMultipleChoice(task, u)
      [] task.task_type = "matching"        -> Returned(DefaultFormatMatching(u))
      [] OTHER                              -> Returned(PyStr(u))

-----------------------------------------------------------------------------
(* The submitter *)

\* What the portal (or the wire) does with the one POST of a submission.
BodyChars == {"0", "1", "2", "3", "7", " "}
Statuses == {200, 204, 304, 404, 500}
Transports ==
    [kind : {"response"}, status : Statuses, body : SeqsUpTo(BodyChars, MaxBodyLen)]
    \cup [kind : {"Timeout", "ConnectionError"}, status : {0}, body : {<<>>}]

\* requests.RequestException and its subclasses
RequestExceptions == {"HTTPError", "Timeout", "ConnectionError"}

\* response.raise_for_status() raises for 4xx and 5xx
RaisesForStatus(status) == 400 <= status /\ status < 600

\* str(e) of the exception a transport failure raises
ExcMessage(t) ==
    [exc |-> IF t.kind = "response" THEN "HTTPError" ELSE t.kind, status |-> t.status]

\* BaseChecker._parse_result_code: code_map.get(code, CheckResult.ERROR)
ParseResultCodeThreeWrong(code) ==
    CASE code = <<"1">> -> "correct"
      [] code = <<"3">> -> "incorrect"
      [] code = <<"2">> -> "incorrect"
      [] OTHER          -> "error"
_parse_result_code(code) ==
    CASE code = <<"1">> -> "correct"
      [] code = <<"3">> -> "correct"
      [] code = <<"2">> -> "incorrect"
      [] code = <<"0">> -> "error"
      [] OTHER          -> "error"

\* config.RESULT_CODES.get(code, 'error')
RESULT_CODES(code) ==
    CASE code = <<"1">> -> "correct"
      [] code = <<"2">> -> "incorrect"
      [] code = <<"3">> -> "partially_correct"
      [] code = <<"0">> -> "error"
      [] OTHER          -> "error"

\* FIPIChecker._parse_result_code
FIPIParseResultCode(code) ==
    LET result_str == RESULT_CODES(code)
    IN  CASE result_str = "correct"           -> "correct"
          [] result_str = "incorrect"         -> "incorrect"
          [] result_str = "partially_correct" -> "partially_correct"
          [] OTHER                            -> "error"

\* StandaloneChecker.check_by_guid: result_map.get(result_code, 'error')
StandaloneResultMap(code) ==
    CASE code = <<"1">> -> "correct"
      [] code = <<"3">> -> "correct"
      [] code = <<"2">> -> "incorrect"
      [] code = <<"0">> -> "error"
      [] OTHER          -> "error"

\* BaseChecker._send_check_request: post, raise_for_status, sleep, text.strip()
_send_check_request(t) ==
    IF t.kind # "response" THEN [res |-> Raised(t.kind), net |-> <<"POST">>]
    ELSE IF RaisesForStatus(t.status) THEN [res |-> Raised("HTTPError"), net |-> <<"POST">>]
    ELSE [res |-> Returned(Strip(t.body)), net |-> <<"POST", "sleep">>]

\* The try/except of BaseChecker.check_answer, once the answer is formatted.
BaseSubmitDroppingMessage(task, answer_str, t) ==
    LET sent == _send_check_request(t)
    IN  [net |-> sent.net,
         out |-> Returned(
            IF sent.res.ok
            THEN [guid |-> task.guid, task_id |-> task.task_id,
                  result |-> _parse_result_code(sent.res.v),
                  user_answer |-> answer_str, result_code |-> sent.res.v, error |-> None]
            ELSE [guid |-> task.guid, task_id |-> task.task_id, result |-> "error",
                  user_answer |-> answer_str, result_code |-> <<>>,
                  error |-> None])]
BaseSubmit(task, answer_str, t) ==
    LET sent == _send_check_request(t)
    IN  [net |-> sent.net,
         out |-> Returned(
            IF sent.res.ok
            THEN [guid |-> task.guid, task_id |-> task.task_id,
                  result |-> _parse_result_code(sent.res.v),
                  user_answer |-> answer_str, result_code |-> sent.res.v, error |-> None]
            ELSE \* except Exception as e
                 [guid |-> task.guid, task_id |-> task.task_id, result |-> "error",
                  user_answer |-> answer_str, result_code |-> <<>>,
                  error |-> Some(ExcMessage(t))])]

\* The subject's format_answer (the checker class registered for it).
FormatAnswerOf(checker, task, u) ==
    CASE checker = "DefaultChecker"  -> DefaultFormatAnswer(task, u)
      [] checker = "MathProfChecker" -> MathFormatAnswer(task, u)
      [] checker = "PhysicsChecker"  -> PhysicsFormatAnswer(task, u)
      [] checker = "RussianChecker"  -> RussianFormatAnswer(task, u)

\* BaseChecker.check_answer: format outside the try, then submit inside it;
\* validate_answer_format is not called.
CheckAnswerRejectingInvalid(checker, task, u, t) ==
    LET fmt == FormatAnswerOf(checker, task, u)
    IN  IF ~fmt.ok THEN [net |-> <<>>, out |-> fmt]
        ELSE IF ~ValidateAnswerFormatOf(checker, task, u)
        THEN [net |-> <<>>,
              out |-> Returned([guid |-> task.guid, task_id |-> task.task_id,
                                result |-> "error", user_answer |-> fmt.v,
                                result_code |-> <<>>, error |-> None])]
        ELSE BaseSubmit(task, fmt.v, t)
CheckAnswerCatchingFormat(checker, task, u, t) ==
    LET fmt == FormatAnswerOf(checker, task, u)
    IN  IF ~fmt.ok
        THEN [net |-> <<>>,
              out |-> Returned([guid |-> task.guid, task_id |-> task.task_id,
                                result |-> "error", user_answer |-> <<>>,
                                result_code |-> <<>>, error |-> None])]
        ELSE BaseSubmit(task, fmt.v, t)
BaseCheckerCheckAnswer(checker, task, u, t) ==
    LET fmt == FormatAnswerOf(checker, task, u)
    IN  IF ~fmt.ok THEN [net |-> <<>>, out |-> fmt]
        ELSE BaseSubmit(task, fmt.v, t)

\* FIPIChecker.check_answer: except requests.RequestException only; the
\* CheckResponse of the older package has no error field.
FIPICheckerCheckAnswer(task, u, t) ==
    LET fmt == FIPIFormatAnswerForCheck(task, u)
    IN  IF ~fmt.ok THEN [net |-> <<>>, out |-> fmt]
        ELSE IF t.kind # "response" \/ RaisesForStatus(t.status)
        THEN LET exc == IF t.kind = "response" THEN "HTTPError" ELSE t.kind
             IN  [net |-> <<"POST">>,
                  out |-> IF exc \in RequestExceptions
                          THEN Returned([guid |-> task.guid, result |-> "error",
                                         user_answer |-> fmt.v])
                          ELSE Raised(exc)]
        ELSE [net |-> <<"POST", "sleep">>,
              out |-> Returned([guid |-> task.guid,
                                result |-> FIPIParseResultCode(Strip(t.body)),
                                user_answer |-> fmt.v])]

\* StandaloneChecker.check_by_guid: everything inside one try; any status
\* other than 200 is an error; no delay.
check_by_guid(guid, answer, task_type, t) ==
    IF t.kind # "response"
    THEN [guid |-> guid, answer |-> answer, result |-> "error",
          error |-> ExcMessage(t), task_type |-> task_type, success |-> FALSE]
    ELSE IF t.status # 200
    THEN [guid |-> guid, answer |-> answer, result |-> "error",
          error |-> [exc |-> "HTTP", status |-> t.status], task_type |-> task_type, success |-> FALSE]
    ELSE [guid |-> guid, answer |-> answer,
          result |-> StandaloneResultMap(Strip(t.body)),
          result_code |-> Strip(t.body), task_type |-> task_type, success |-> TRUE]

\* StandaloneChecker.check_task
StandaloneCheckTask(task, u, t) ==
    LET fmt == StandaloneFormatAnswer(task, u)
    IN  IF ~fmt.ok THEN [net |-> <<>>, out |-> fmt]
        ELSE [net |-> <<"POST">>,
              out |-> Returned(check_by_guid(task.guid, fmt.v, task.task_type, t)
                               @@ [task_id |-> task.task_id])]

\* The tasks and caller values submissions are made with.
Variant(i) == [index |-> i, text |-> "text", input_name |-> <<"test", i>>]
CheckTasks ==
    { [guid |-> "G1", task_id |-> "0FDA4F", task_type |-> "short_answer",
       answer_variants |-> None],
      [guid |-> "G2", task_id |-> "1A2B3C", task_type |-> "multiple_choice",
       answer_variants |-> Some(<<Variant(0), Variant(1), Variant(2)>>)],
      [guid |-> "G3", task_id |-> "4D5E6F", task_type |-> "multiple_choice",
       answer_variants |-> None],
      [guid |-> "G4", task_id |-> "77AA88", task_type |-> "matching",
       answer_variants |-> None] }
CheckInputs ==
    { PyStrVal(<<" ", "3", ",", "5">>),
      PyListVal(<<PyIntVal(0), PyIntVal(2)>>),
      PyDictVal(<<Item(<<"cyrBe">>, PyStrVal(<<"4">>)), Item(<<"cyrA">>, PyIntVal(2))>>),
      PyIntVal(7) }
BaseCheckers == {"DefaultChecker", "MathProfChecker", "PhysicsChecker", "RussianChecker"}
Checkers == BaseCheckers \cup {"FIPIChecker", "StandaloneChecker"}

NotCalled == [pending |-> TRUE]

\* No submission and no formatter call is in progress.
CheckIdle == ckReq = NotCalled /\ ckPc = "idle" /\ ckOut = NotCalled /\ net = <<>>
FormatIdle == fmReq = NotCalled /\ fmPc = "idle" /\ fmOut = NotCalled
ParseIdle ==
    /\ prParser = "none" /\ prBlocks = <<>> /\ prPc = "idle"
    /\ prLog = <<>> /\ prTasks = <<>>
FactoryIdle ==
    /\ _PARSERS = <<>> /\ _CHECKERS = <<>> /\ fcRegs = 0
    /\ fcReq = NotCalled /\ fcPc = "idle" /\ fcOut = NotCalled /\ fcTrace = <<>>
PagesIdle ==
    /\ pgRun = NotCalled /\ pgPc = "idle" /\ pgPage = 0 /\ pgEmpty = 0
    /\ pgAll = <<>> /\ pgReqs = <<>> /\ pgPortal = NotCalled
LifecycleIdle ==
    /\ lcParser = "none" /\ lcCreated = NotCalled /\ lcTask = NotCalled /\ lcPc = "idle"
SaveIdle ==
    /\ svRun = NotCalled /\ svPc = "idle" /\ svLog = <<>> /\ svSaved = <<>>
PersistIdle ==
    /\ ptReq = NotCalled /\ ptPc = "idle" /\ ptOut = NotCalled

CheckInit ==
    /\ FormatIdle /\ ParseIdle /\ FactoryIdle /\ PagesIdle /\ LifecycleIdle /\ SaveIdle /\ PersistIdle
    /\ ckReq \in [checker : Checkers, task : CheckTasks, input : CheckInputs,
                  transport : Transports]
    /\ ckPc = "ready"
    /\ ckOut = NotCalled
    /\ net = <<>>

\* checker.check_answer(task, user_input) of a fipilib checker
CheckAnswer ==
    /\ ckPc = "ready"
    /\ ckReq.checker \in BaseCheckers
    /\ LET r == BaseCheckerCheckAnswer(ckReq.checker, ckReq.task, ckReq.input, ckReq.transport)
       IN  ckOut' = r.out /\ net' = r.net /\ ckPc' = "returned"
    /\ UNCHANGED <<ckReq, formatVars, parseVars, factoryVars, pagesVars, lifecycleVars, saveVars, persistVars>>

\* FIPIChecker.check_answer(task, user_input)
FIPICheckAnswer ==
    /\ ckPc = "ready"
    /\ ckReq.checker = "FIPIChecker"
    /\ LET r == FIPICheckerCheckAnswer(ckReq.task, ckReq.input, ckReq.transport)
       IN  ckOut' = r.out /\ net' = r.net /\ ckPc' = "returned"
    /\ UNCHANGED <<ckReq, formatVars, parseVars, factoryVars, pagesVars, lifecycleVars, saveVars, persistVars>>

\* StandaloneChecker.check_task(task, user_input)
CheckTask ==
    /\ ckPc = "ready"
    /\ ckReq.checker = "StandaloneChecker"
    /\ LET r == StandaloneCheckTask(ckReq.task, ckReq.input, ckReq.transport)
       IN  ckOut' = r.out /\ net' = r.net /\ ckPc' = "returned"
    /\ UNCHANGED <<ckReq, formatVars, parseVars, factoryVars, pagesVars, lifecycleVars, saveVars, persistVars>>

CheckNext == CheckAnswer \/ FIPICheckAnswer \/ CheckTask

SpecCheck == CheckInit /\ [][CheckNext]_vars

-----------------------------------------------------------------------------
(* Properties of the submitter *)

\* The formatted answer of the submission, when formatting returned.
Formatted ==
    CASE ckReq.checker \in BaseCheckers  -> FormatAnswerOf(ckReq.checker, ckReq.task, ckReq.input)
      [] ckReq.checker = "FIPIChecker"   -> FIPIFormatAnswerForCheck(ckReq.task, ckReq.input)
      [] OTHER                           -> StandaloneFormatAnswer(ckReq.task, ckReq.input)

\* The response of a call that returned one.
Resp == ckOut.v
UserAnswerOf(r) == IF "user_answer" \in DOMAIN r THEN r.user_answer ELSE r.answer
CarriesMessage(r) ==
    /\ "error" \in DOMAIN r
    /\ ("some" \in DOMAIN r.error => r.error.some)

\* The reply reached the classification step: the POST returned a response and
\* the checker did not take its status for a failure.
Classified ==
    /\ ckReq.transport.kind = "response"
    /\ IF ckReq.checker = "StandaloneChecker" THEN ckReq.transport.status = 200
       ELSE ~RaisesForStatus(ckReq.transport.status)

\* C1: in BaseChecker._parse_result_code and StandaloneChecker.check_by_guid
\* the trimmed response body "1" or "3" classifies as correct, "2" as
\* incorrect, and every other body ("0", the empty one, any longer one) as error.
C1_ResultCodeMapping ==
    (/\ ckPc = "returned"
     /\ ckReq.checker \in BaseCheckers \cup {"StandaloneChecker"}
     /\ Formatted.ok
     /\ Classified)
    => LET code == Strip(ckReq.transport.body)
       IN  /\ ckOut.ok
           /\ code \in {<<"1">>, <<"3">>} => Resp.result = "correct"
           /\ code = <<"2">> => Resp.result = "incorrect"
           /\ code \notin {<<"1">>, <<"2">>, <<"3">>} => Resp.result = "error"

C1_Witness ==
    /\ ckPc = "returned"
    /\ ckReq.checker = "DefaultChecker"
    /\ ckReq.transport.kind = "response" /\ ckReq.transport.status = 200
    /\ ckReq.transport.body = <<"3", " ">>
    /\ ckOut.ok /\ Resp.result = "correct"

\* A transport failure as the claim words it: an exception of the POST, or a
\* status outside 2xx.
NonSuccess(t) == t.kind # "response" \/ ~(200 <= t.status /\ t.status < 300)

\* A transport failure as each checker detects it.
TransportFailed(checker, t) ==
    \/ t.kind # "response"
    \/ IF checker = "StandaloneChecker" THEN t.status # 200 ELSE RaisesForStatus(t.status)

-----------------------------------------------------------------------------
(* The formatters applied on their own *)

\* Tasks with n options, and with none known.
TaskWithVariants(n) ==
    [guid |-> "G2", task_id |-> "1A2B3C", task_type |-> "multiple_choice",
     answer_variants |-> Some([i \in 1..n |-> Variant(i - 1)])]

\* Sequences over S of length at most n without a repeated key.
DistinctKeyed(S, n) ==
    {q \in SeqsUpTo(S, n) : \A i, j \in 1..Len(q) : i # j => q[i].k # q[j].k}

KeyLetters == {<<"cyrA">>, <<"cyrBe">>, <<"cyrVe">>, <<"A">>, <<"cyrA", "A">>}
ChosenNumbers == {PyStrVal(<<"2">>), PyStrVal(<<"4">>), PyIntVal(12)}
IndexLists == SeqsUpTo(-2..(MaxVariants + 1), MaxIndices)
Mappings == DistinctKeyed({Item(k, x) : k \in KeyLetters, x \in ChosenNumbers}, MaxDictLen)
AnswerChars == {"3", "5", ",", " ", "\t", "\n"}
FreeTextValues ==
    {PyStrVal(q) : q \in SeqsUpTo(AnswerChars, MaxStrLen)}
    \cup {PyIntVal(35), PyIntVal(-4), PyListVal(<<PyIntVal(3), PyIntVal(5)>>)}

\* One task of each shape, and the answers validation is asked about.
FormatTasks ==
    {[guid |-> "G1", task_id |-> "0FDA4F", task_type |-> "short_answer",
      answer_variants |-> None],
     TaskWithVariants(3),
     [guid |-> "G4", task_id |-> "77AA88", task_type |-> "matching",
      answer_variants |-> None]}
\* Multiple-choice tasks without known options: the list absent, or empty.
NoOptionTasks ==
    {[guid |-> "G3", task_id |-> "4D5E6F", task_type |-> "multiple_choice",
      answer_variants |-> None],
     [guid |-> "G5", task_id |-> "99BB00", task_type |-> "multiple_choice",
      answer_variants |-> Some(<<>>)]}
ValidatedChars == {"3", "5", "-", ",", ".", "/", "e", "+", "x", " "}
ValidatedValues ==
    {PyStrVal(q) : q \in SeqsUpTo(ValidatedChars, MaxStrLen)}
    \cup {PyIntVal(35), PyIntVal(-4), PyListVal(<<PyIntVal(3), PyIntVal(5)>>)}

PyIntList(xs) == PyListVal([i \in 1..Len(xs) |-> PyIntVal(xs[i])])
IndexValues == {PyIntList(xs) : xs \in IndexLists}

FormatInit ==
    /\ CheckIdle /\ ParseIdle /\ FactoryIdle /\ PagesIdle /\ LifecycleIdle /\ SaveIdle /\ PersistIdle
    /\ fmPc = "ready"
    /\ fmOut = NotCalled
    /\ \/ fmReq \in [fn : {"_format_multiple_choice", "indices_to_binary_string"},
                     n : 1..MaxVariants, indices : IndexLists]
       \/ fmReq \in [fn : {"_format_matching", "format_matching_answer"}, mapping : Mappings]
       \/ fmReq \in [fn : {"_format_math_short_answer", "_format_physics_short_answer"},
                     value : FreeTextValues]
       \/ fmReq \in [fn : {"format_answer"}, checker : BaseCheckers,
                     task : FormatTasks, value : FreeTextValues]
       \/ fmReq \in [fn : {"validate_answer_format"}, checker : BaseCheckers,
                     task : FormatTasks, value : ValidatedValues]
       \/ fmReq \in [fn : {"format_answer"}, checker : {"DefaultChecker"},
                     task : NoOptionTasks, value : IndexValues]
       \/ fmReq \in [fn : {"format_answer_for_check", "_format_answer"},
                     task : NoOptionTasks \cup FormatTasks, value : IndexValues]


\* DefaultChecker._format_multiple_choice(task, [indices])
FormatMultipleChoice ==
    /\ fmPc = "ready" /\ fmReq.fn = "_format_multiple_choice"
    /\ fmOut' = DefaultFormatMultipleChoice(TaskWithVariants(fmReq.n), PyIntList(fmReq.indices))
    /\ fmPc' = "returned"
    /\ UNCHANGED <<fmReq, checkVars, parseVars, factoryVars, pagesVars, lifecycleVars, saveVars, persistVars>>

\* AnswerHelper.indices_to_binary_string(indices, total)
IndicesToBinaryString ==
    /\ fmPc = "ready" /\ fmReq.fn = "indices_to_binary_string"
    /\ fmOut' = Returned(indices_to_binary_string(fmReq.indices, fmReq.n))
    /\ fmPc' = "returned"
    /\ UNCHANGED <<fmReq, checkVars, parseVars, factoryVars, pagesVars, lifecycleVars, saveVars, persistVars>>

\* DefaultChecker._format_matching({letter: number})
FormatMatching ==
    /\ fmPc = "ready" /\ fmReq.fn = "_format_matching"
    /\ fmOut' = Returned(DefaultFormatMatching(PyDictVal(fmReq.mapping)))
    /\ fmPc' = "returned"
    /\ UNCHANGED <<fmReq, checkVars, parseVars, factoryVars, pagesVars, lifecycleVars, saveVars, persistVars>>

\* AnswerHelper.format_matching_answer(mapping)
FormatMatchingAnswer ==
    /\ fmPc = "ready" /\ fmReq.fn = "format_matching_answer"
    /\ fmOut' = Returned(format_matching_answer(fmReq.mapping))
    /\ fmPc' = "returned"
    /\ UNCHANGED <<fmReq, checkVars, parseVars, factoryVars, pagesVars, lifecycleVars, saveVars, persistVars>>

\* MathProfChecker._format_math_short_answer(user_input)
FormatMathShortAnswer ==
    /\ fmPc = "ready" /\ fmReq.fn = "_format_math_short_answer"
    /\ fmOut' = Returned(_format_math_short_answer(fmReq.value))
    /\ fmPc' = "returned"
    /\ UNCHANGED <<fmReq, checkVars, parseVars, factoryVars, pagesVars, lifecycleVars, saveVars, persistVars>>

\* PhysicsChecker._format_physics_short_answer(user_input)
FormatPhysicsShortAnswer ==
    /\ fmPc = "ready" /\ fmReq.fn = "_format_physics_short_answer"
    /\ fmOut' = Returned(_format_physics_short_answer(fmReq.value))
    /\ fmPc' = "returned"
    /\ UNCHANGED <<fmReq, checkVars, parseVars, factoryVars, pagesVars, lifecycleVars, saveVars, persistVars>>

\* checker.format_answer(task, user_input)
FormatAnswer ==
    /\ fmPc = "ready" /\ fmReq.fn = "format_answer"
    /\ fmOut' = FormatAnswerOf(fmReq.checker, fmReq.task, fmReq.value)
    /\ fmPc' = "returned"
    /\ UNCHANGED <<fmReq, checkVars, parseVars, factoryVars, pagesVars, lifecycleVars, saveVars, persistVars>>

\* checker.validate_answer_format(task, user_input)
ValidateAnswerFormat ==
    /\ fmPc = "ready" /\ fmReq.fn = "validate_answer_format"
    /\ fmOut' = Returned(ValidateAnswerFormatOf(fmReq.checker, fmReq.task, fmReq.value))
    /\ fmPc' = "returned"
    /\ UNCHANGED <<fmReq, checkVars, parseVars, factoryVars, pagesVars, lifecycleVars, saveVars, persistVars>>

\* FIPIChecker.format_answer_for_check(task, user_input)
FormatAnswerForCheck ==
    /\ fmPc = "ready" /\ fmReq.fn = "format_answer_for_check"
    /\ fmOut' = FIPIFormatAnswerForCheck(fmReq.task, fmReq.value)
    /\ fmPc' = "returned"
    /\ UNCHANGED <<fmReq, checkVars, parseVars, factoryVars, pagesVars, lifecycleVars, saveVars, persistVars>>

\* StandaloneChecker._format_answer(task, user_input)
StandaloneFormat ==
    /\ fmPc = "ready" /\ fmReq.fn = "_format_answer"
    /\ fmOut' = StandaloneFormatAnswer(fmReq.task, fmReq.value)
    /\ fmPc' = "returned"
    /\ UNCHANGED <<fmReq, checkVars, parseVars, factoryVars, pagesVars, lifecycleVars, saveVars, persistVars>>

FormatNext ==
    \/ FormatAnswer
    \/ FormatAnswerForCheck
    \/ StandaloneFormat
    \/ ValidateAnswerFormat
    \/ FormatMultipleChoice
    \/ IndicesToBinaryString
    \/ FormatMatching
    \/ FormatMatchingAnswer
    \/ FormatMathShortAnswer
    \/ FormatPhysicsShortAnswer

SpecFormat == FormatInit /\ [][FormatNext]_vars

-----------------------------------------------------------------------------
(* Properties of the formatters *)

IsBitsCall == fmReq.fn \in {"_format_multiple_choice", "indices_to_binary_string"}
IsMatchingCall == fmReq.fn \in {"_format_matching", "format_matching_answer"}
IsNumericCall == fmReq.fn \in {"_format_math_short_answer", "_format_physics_short_answer"}

Elements(q) == {q[i] : i \in 1..Len(q)}

\* C6: formatting a sequence of indices against n >= 1 known options returns
\* (raising nothing) exactly n characters, each '0' or '1', with '1' at
\* position i exactly when i is a supplied index and 0 <= i < n.
C6_BitsExactlyTheSuppliedIndices ==
    (fmPc = "returned" /\ IsBitsCall)
    => /\ fmOut.ok
       /\ Len(fmOut.v) = fmReq.n
       /\ \A i \in 0..(fmReq.n - 1) :
            /\ fmOut.v[i + 1] \in {"0", "1"}
            /\ fmOut.v[i + 1] = "1" <=> i \in Elements(fmReq.indices)

\* [0, 2] against 5 options gave "10100".
C6_Witness ==
    /\ fmPc = "returned" /\ fmReq.fn = "_format_multiple_choice"
    /\ fmReq.n = 5 /\ fmReq.indices = <<0, 2>>
    /\ fmOut = Returned(<<"1", "0", "1", "0", "0">>)

\* The entries of a mapping, whatever their insertion order.
Entries(kv) == Elements(kv)

\* The number of keys of the mapping that sort before k.
Rank(kv, k) == Cardinality({e \in Entries(kv) : StrLess(e.k, k)})

\* The chosen numbers in ascending order of their letters, from the entries alone.
ByAscendingLetter(kv) ==
    [r \in 1..Len(kv) |-> PyStr((CHOOSE e \in Entries(kv) : Rank(kv, e.k) = r - 1).val)]

\* C7: the wire string of a letter-to-number mapping is the concatenation of
\* the chosen numbers in ascending order of their letters, so it is the same
\* for every insertion order of the same entries.
C7_MatchingOrderIndependent ==
    (fmPc = "returned" /\ IsMatchingCall)
    => /\ fmOut.ok
       /\ fmOut.v = JoinWith(<<>>, ByAscendingLetter(fmReq.mapping))
       /\ \A other \in Mappings :
            Entries(other) = Entries(fmReq.mapping) /\ Len(other) = Len(fmReq.mapping)
            => format_matching_answer(other) = fmOut.v

\* {Be: 4, A: 2}, inserted in that order, gave "24".
C7_Witness ==
    /\ fmPc = "returned" /\ fmReq.fn = "_format_matching"
    /\ fmReq.mapping = <<Item(<<"cyrBe">>, PyStrVal(<<"4">>)), Item(<<"cyrA">>, PyStrVal(<<"2">>))>>
    /\ fmOut = Returned(<<"2", "4">>)

\* C8 as stated: the math and physics free-text wire string contains no comma
\* and no whitespace character of any kind.
C8_AsStated ==
    (fmPc = "returned" /\ IsNumericCall)
    => \A i \in 1..Len(fmOut.v) : fmOut.v[i] # "," /\ fmOut.v[i] \notin Whitespace

\* The stringified value without its leading and trailing whitespace, its
\* space characters dropped and each comma turned into a point.
Normalised(u) ==
    LET kept == SelectSeq(Strip(PyStr(u)), LAMBDA c : c # " ")
    IN  [i \in 1..Len(kept) |-> IF kept[i] = "," THEN "." ELSE kept[i]]

\* C8 amended: the math and physics free-text wire string is the stringified
\* value trimmed, with every comma replaced by a point and every space
\* character removed: it contains no comma and no space and neither starts
\* nor ends with whitespace, but tabs and newlines inside the value are kept.
C8_NoCommaNoSpace ==
    (fmPc = "returned" /\ IsNumericCall)
    => /\ fmOut.ok
       /\ fmOut.v = Normalised(fmReq.value)
       /\ \A i \in 1..Len(fmOut.v) : fmOut.v[i] \notin {",", " "}
       /\ fmOut.v # <<>> => fmOut.v[1] \notin Whitespace /\ fmOut.v[Len(fmOut.v)] \notin Whitespace

\* "3,5" gave "3.5".
C8_Witness ==
    /\ fmPc = "returned" /\ fmReq.fn = "_format_math_short_answer"
    /\ fmReq.value = PyStrVal(<<"3", ",", "5">>)
    /\ fmOut = Returned(<<"3", ".", "5">>)


(***************************************************************************)
(* Listing pages.  A page is the sequence of its task fragments            *)
(* (div.qblock) in document order.  A fragment is described by what the    *)
(* extraction code looks for in it; texts are recorded as the code reads   *)
(* them (after get_text / _clean_text), identifiers as character           *)
(* sequences because the code slices them.                                 *)
(***************************************************************************)

\* A table row of an answer region: whether it carries the class
\* active-distractor, its checkbox (absent, or present with or without a
\* name attribute) and the texts of its td cells.
Row(active, checkbox, cells) == [active |-> active, checkbox |-> checkbox, cells |-> cells]
NoCheckbox == [present |-> FALSE]
Checkbox(name) == [present |-> TRUE, name |-> name]

\* A select of an answer region: its name attribute, whether it sits in a
\* td, and the text of the td before that one.
Select(name, in_td, prev) == [name |-> name, in_td |-> in_td, prev |-> prev]

\* The controls of one region of a fragment.
Region(text, unit, rows, selects, table) ==
    [text |-> text,            \* an input type=text name=answer is present
     unit |-> unit,            \* what the unit pattern finds after it
     rows |-> rows,            \* the tr elements, in document order
     selects |-> selects,      \* the select elements, in document order
     answer_table |-> table]   \* a table.answer-table is present

\* A fragment: the guid input (absent, or present with its value), the
\* span.canselect text, the td.cell_0, the id attribute with the KES texts of
\* the matching information block, the controls inside div.varinats-block
\* (when there is one) and the controls elsewhere in the fragment.
Fragment(guid, span, cell0, id, info, variants, rest) ==
    [guid |-> guid, span |-> span, cell0 |-> cell0, id |-> id, info |-> info,
     variants_block |-> variants, rest |-> rest]

\* Exceptions are values; a step of extraction either gives a value or raises.
IndexError == "IndexError"

TakePrefix(str, n) == SubSeq(str, 1, IF Len(str) < n THEN Len(str) ELSE n)

\* _extract_guid: the value attribute of the guid input, None without the input.
_extract_guid(block) == IF block.guid.some THEN Some(block.guid.v) ELSE None

\* _extract_task_id: the span text, else the first 8 characters of a
\* non-empty guid value, else None.
_extract_task_id(block) ==
    IF block.span.some THEN Some(block.span.v)
    ELSE IF block.guid.some
         THEN IF block.guid.v # <<>> THEN Some(TakePrefix(block.guid.v, 8)) ELSE None
         ELSE None

\* Python truth of an Optional[str]: neither None nor empty.
Truthy(opt) == opt.some /\ opt.v # <<>>

\* "if not guid or not task_id: return None" of parse_task_block.
MissingIdentityIgnored(guid, task_id) == FALSE
MissingIdentity(guid, task_id) == ~Truthy(guid) \/ ~Truthy(task_id)

\* _extract_question: (question_html, question_text), both empty without cell_0.
_extract_question(block) ==
    IF block.cell0.some
    THEN [html |-> block.cell0.v.html, text |-> block.cell0.v.text]
    ELSE [html |-> "", text |-> ""]

\* _extract_images / extract_image_urls_from_html: the ShowPictureQ matches
\* followed by the img src matches found in the question markup.
_extract_images(cell0) == IF cell0.some THEN cell0.v.show \o cell0.v.img ELSE <<>>

\* _extract_kes / _parse_kes_from_block: nothing unless the id starts with
\* "q" and the information block is found; then the non-empty KES texts.
_extract_kes(block) ==
    IF block.id = <<>> \/ Head(block.id) # "q" THEN <<>>
    ELSE IF ~block.info.some THEN <<>>
    ELSE SelectSeq(block.info.v, LAMBDA t : t # "")


(***************************************************************************)
(* Answer-shape classification                                             *)
(***************************************************************************)

SHORT_ANSWER == "short_answer"
MULTIPLE_CHOICE == "multiple_choice"
MATCHING == "matching"

AnswerVariant(index, text, input_name) ==
    [index |-> index, text |-> text, input_name |-> input_name]
MatchingOption(letter, text, select_name) ==
    [letter |-> letter, text |-> text, select_name |-> select_name]
MatchingChoice(number, text) == [number |-> number, text |-> text]

\* The keyword arguments a classification hands to the Task constructor; a
\* key that is not passed leaves the field at its default, None.
AnswerData(unit, variants, options, choices) ==
    [answer_unit |-> unit, answer_variants |-> variants,
     matching_options |-> options, matching_choices |-> choices]
NoAnswerData == AnswerData(None, None, None, None)

Classification(task_type, data) == [task_type |-> task_type, data |-> data]

\* "variants_block = block.find('div', class_='varinats-block'); if not
\* variants_block: variants_block = block": the region the classifier looks at.
InspectedRegion(block) ==
    IF block.variants_block.some THEN block.variants_block.v ELSE block.rest

HasTextInput(region) == region.text
HasCheckboxes(region) == \E i \in 1..Len(region.rows) : region.rows[i].checkbox.present
HasSelects(region) == region.selects # <<>>

\* _parse_short_answer: the unit found after the text input, if any.
_parse_short_answer(region) ==
    Returned(Classification(SHORT_ANSWER, AnswerData(region.unit, None, None, None)))

\* block.find_all('tr', class_='active-distractor')
AllRows(region) == region.rows
ActiveRows(region) == SelectSeq(region.rows, LAMBDA row : row.active)

TestName(idx) == <<"t", "e", "s", "t">> \o NatToStr(idx)

\* The loop of _parse_multiple_choice from position i of the active rows:
\* a row without checkbox is passed over, the others give a variant whose
\* index is the position of the row among the active rows.
RECURSIVE VariantsFrom(_, _)
VariantsFrom(active_rows, i) ==
    IF i > Len(active_rows) THEN <<>>
    ELSE LET row == active_rows[i]
             idx == i - 1
         IN IF ~row.checkbox.present THEN VariantsFrom(active_rows, i + 1)
            ELSE <<AnswerVariant(idx, row.cells[Len(row.cells)],
                                 IF row.checkbox.name.some THEN row.checkbox.name.v
                                 ELSE TestName(idx))>>
                 \o VariantsFrom(active_rows, i + 1)

\* _parse_multiple_choice: "row.find_all('td')[-1]" raises IndexError on an
\* active row that has a checkbox and no td.
MultipleChoiceWithEmptyLists(region) ==
    LET active_rows == ActiveRows(region) IN
    IF \E i \in 1..Len(active_rows) :
           active_rows[i].checkbox.present /\ active_rows[i].cells = <<>>
    THEN Raised(IndexError)
    ELSE Returned(Classification(MULTIPLE_CHOICE,
             AnswerData(None, Some(VariantsFrom(active_rows, 1)), Some(<<>>), Some(<<>>))))
_parse_multiple_choice(region) ==
    LET active_rows == ActiveRows(region) IN
    IF \E i \in 1..Len(active_rows) :
           active_rows[i].checkbox.present /\ active_rows[i].cells = <<>>
    THEN Raised(IndexError)
    ELSE Returned(Classification(MULTIPLE_CHOICE,
             AnswerData(None, Some(VariantsFrom(active_rows, 1)), None, None)))

\* chr(ord('A') + idx) over the Cyrillic alphabet.
CyrillicLetters == <<"cyrA", "cyrBe", "cyrVe", "cyrGe", "cyrDe", "cyrJe">>
LetterAt(idx) == <<CyrillicLetters[idx + 1]>>
SelectName(idx) == <<"a", "n", "s">> \o NatToStr(idx)

\* The option loop of _parse_matching from position i of the selects: a
\* select outside any td gives no option.
RECURSIVE OptionsFrom(_, _)
OptionsFrom(selects, i) ==
    IF i > Len(selects) THEN <<>>
    ELSE LET select == selects[i]
             idx == i - 1
             letter == IF select.prev.some THEN select.prev.v ELSE LetterAt(idx)
         IN (IF select.in_td
             THEN <<MatchingOption(letter, <<"cyrVariant", " ">> \o letter,
                                   IF select.name.some THEN select.name.v
                                   ELSE SelectName(idx))>>
             ELSE <<>>)
            \o OptionsFrom(selects, i + 1)

\* re.match(r'^\d+\)', text)
IsNumbered(text) ==
    \E k \in 1..Len(text) :
        /\ k < Len(text)
        /\ \A j \in 1..k : IsDigit(text[j])
        /\ text[k + 1] = ")"

\* The choice loop of _parse_matching: every tr with at least two td whose
\* first cell reads like "1)".
RECURSIVE ChoicesFrom(_, _)
ChoicesFrom(rows, i) ==
    IF i > Len(rows) THEN <<>>
    ELSE LET cells == rows[i].cells IN
         (IF Len(cells) >= 2 /\ IsNumbered(cells[1])
          THEN <<MatchingChoice(Strip(Replace(cells[1], ")", <<>>)), cells[2])>>
          ELSE <<>>)
         \o ChoicesFrom(rows, i + 1)

\* DefaultParser._parse_matching
_parse_matching(region) ==
    Returned(Classification(MATCHING,
        AnswerData(None, None, Some(OptionsFrom(region.selects, 1)),
                   Some(ChoicesFrom(region.rows, 1)))))

\* The matching branch of FIPIParser._parse_answer_block: options are read
\* only when the region holds a table.answer-table.
FIPIParseMatching(region) ==
    Returned(Classification(MATCHING,
        AnswerData(None, None,
                   Some(IF region.answer_table THEN OptionsFrom(region.selects, 1) ELSE <<>>),
                   Some(ChoicesFrom(region.rows, 1)))))

\* The decision chain of DefaultParser.parse_answer_block on the region it
\* looks at.
CheckboxBeforeText(region) ==
    IF HasCheckboxes(region) THEN _parse_multiple_choice(region)
    ELSE IF HasTextInput(region) THEN _parse_short_answer(region)
    ELSE IF HasSelects(region) THEN _parse_matching(region)
    ELSE Returned(Classification(SHORT_ANSWER, NoAnswerData))
DefaultClassify(region) ==
    IF HasTextInput(region) THEN _parse_short_answer(region)
    ELSE IF HasCheckboxes(region) THEN _parse_multiple_choice(region)
    ELSE IF HasSelects(region) THEN _parse_matching(region)
    ELSE Returned(Classification(SHORT_ANSWER, NoAnswerData))

\* DefaultParser.parse_answer_block
parse_answer_block(block) == DefaultClassify(InspectedRegion(block))

\* FIPIParser._parse_answer_block, called on the region parse_task_from_block
\* chose.
_parse_answer_block(region) ==
    IF HasTextInput(region) THEN _parse_short_answer(region)
    ELSE IF HasCheckboxes(region) THEN _parse_multiple_choice(region)
    ELSE IF HasSelects(region) THEN FIPIParseMatching(region)
    ELSE Returned(Classification(SHORT_ANSWER, NoAnswerData))


(***************************************************************************)
(* Extraction of one fragment                                              *)
(***************************************************************************)

\* The Task dataclass: the answer fields default to None, metadata to {}.
Task(guid, task_id, subject, task_type, question_text, question_html, images, kes_codes, data) ==
    [guid |-> guid, task_id |-> task_id, subject |-> subject,
     task_type |-> task_type,
     question_text |-> question_text, question_html |-> question_html,
     images |-> images, kes_codes |-> kes_codes,
     answer_unit |-> data.answer_unit,
     answer_variants |-> data.answer_variants,
     matching_options |-> data.matching_options,
     matching_choices |-> data.matching_choices,
     metadata |-> <<>>]

\* BaseParser.post_process_task: the task as it is.
post_process_task(self, task) == task

\* The body of BaseParser.parse_task_block inside its try: None without guid
\* or task id, else the Task; an exception of the classifier leaves the body.
ParseTaskBlockBody(self, block) ==
    LET guid == _extract_guid(block)
        task_id == _extract_task_id(block)
        question == _extract_question(block)
        images == _extract_images(block.cell0)
        kes_codes == _extract_kes(block)
        answer == parse_answer_block(block)
    IN IF MissingIdentity(guid, task_id) THEN Returned(None)
       ELSE IF ~answer.ok THEN answer
       ELSE Returned(Some(post_process_task(self,
                Task(IF guid.some THEN guid.v ELSE <<>>,
                     IF task_id.some THEN task_id.v ELSE <<>>,
                     self.subject, answer.v.task_type,
                     question.text, question.html, images, kes_codes,
                     answer.v.data))))

\* BaseParser.parse_task_block: "except Exception" turns whatever the body
\* raises into None.
ParseTaskBlockUncaught(self, block) == ParseTaskBlockBody(self, block)
parse_task_block(self, block) ==
    LET r == ParseTaskBlockBody(self, block) IN
    IF r.ok THEN r ELSE Returned(None)

\* The body of FIPIParser.parse_task_from_block inside its try: None without
\* the guid input or without cell_0; the task id falls back to guid[:8].
ParseTaskFromBlockBody(self, block) ==
    IF ~block.guid.some THEN Returned(None)
    ELSE LET guid == block.guid.v
             task_id == IF block.span.some THEN block.span.v ELSE TakePrefix(guid, 8)
             answer == _parse_answer_block(InspectedRegion(block))
         IN IF ~block.cell0.some THEN Returned(None)
            ELSE IF ~answer.ok THEN answer
            ELSE Returned(Some(Task(guid, task_id, self.subject, answer.v.task_type,
                                    block.cell0.v.text, block.cell0.v.html,
                                    _extract_images(block.cell0), _extract_kes(block),
                                    answer.v.data)))

\* FIPIParser.parse_task_from_block
parse_task_from_block(self, block) ==
    LET r == ParseTaskFromBlockBody(self, block) IN
    IF r.ok THEN r ELSE Returned(None)


(***************************************************************************)
(* parse_page                                                              *)
(***************************************************************************)

\* A parser object: its class and the subject it was built for.
ParserOf(cls, subject) == [cls |-> cls, subject |-> subject]
Parsers ==
    {ParserOf("DefaultParser", k) : k \in {"physics", "russian"}}
        \cup {ParserOf("FIPIParser", "physics")}

\* The fragments pages are made of: every combination of the three kinds
\* of control in one region; regions with irregular markup; fragments whose
\* controls are split between div.varinats-block and the rest; fragments
\* with a missing or empty identifying field.
PageFragments ==
    LET guid == <<"0", "2", "1", "7", "1", "9", "3", "3", "c", "6">>
        span == <<"4", "7", "4", "F">>
        cell0 == [html |-> "<td class=cell_0>..</td>", text |-> "q",
                  show |-> <<"a.gif">>, img |-> <<"a.gif", "b.png">>]
        id == <<"q", "4", "7">>
        info == Some(<<"2.1 k", "">>)
        named == Row(TRUE, Checkbox(Some(<<"t", "7">>)), << <<"x">> >>)
        unnamed == Row(TRUE, Checkbox(None), << <<"n">>, <<"y">> >>)
        plain == Row(TRUE, NoCheckbox, << <<"h">> >>)
        inactive == Row(FALSE, Checkbox(Some(<<"t", "9">>)), << <<"z">> >>)
        broken == Row(TRUE, Checkbox(None), <<>>)
        choice == Row(FALSE, NoCheckbox, << <<"1", ")">>, <<"c">> >>)
        lettered == Select(Some(<<"a", "0">>), TRUE, Some(<<"cyrA">>))
        bare == Select(None, TRUE, None)
        loose == Select(None, FALSE, None)
        Controls(text, checkbox, select) ==
            Region(text,
                   IF text THEN Some(<<"m">>) ELSE None,
                   (IF checkbox THEN <<plain, named, inactive, unnamed>> ELSE <<>>)
                       \o (IF select THEN <<choice>> ELSE <<>>),
                   IF select THEN <<lettered, bare, loose>> ELSE <<>>,
                   select)
        none == Region(FALSE, None, <<>>, <<>>, FALSE)
        regular == {Controls(t, c, sl) : t \in BOOLEAN, c \in BOOLEAN, sl \in BOOLEAN}
        odd == {Region(FALSE, None, <<named, broken>>, <<>>, FALSE),
                Region(TRUE, None, <<broken>>, <<>>, FALSE),
                Region(FALSE, None, <<inactive>>, <<>>, FALSE),
                Region(FALSE, None, <<choice>>, <<bare>>, FALSE)}
        r == Controls(TRUE, FALSE, FALSE)
    IN {Fragment(Some(guid), Some(span), Some(cell0), id, info, None, region) :
            region \in regular \cup odd}
       \cup
       {Fragment(Some(guid), Some(span), Some(cell0), id, info, Some(pair[1]), pair[2]) :
            pair \in {<<Controls(FALSE, TRUE, FALSE), Controls(TRUE, FALSE, FALSE)>>,
                      <<none, Controls(FALSE, FALSE, TRUE)>>,
                      <<Controls(TRUE, FALSE, FALSE), Controls(FALSE, TRUE, FALSE)>>,
                      <<Controls(FALSE, FALSE, TRUE), Controls(TRUE, TRUE, FALSE)>>}}
       \cup
       {Fragment(None, Some(span), Some(cell0), id, info, None, r),
        Fragment(None, None, Some(cell0), id, info, None, r),
        Fragment(Some(<<>>), Some(span), Some(cell0), id, info, None, r),
        Fragment(Some(<<>>), None, Some(cell0), id, info, None, r),
        Fragment(Some(guid), None, Some(cell0), id, info, None, r),
        Fragment(Some(guid), Some(<<>>), Some(cell0), id, info, None, r),
        Fragment(Some(guid), Some(span), None, id, info, None, r),
        Fragment(Some(guid), Some(span), Some(cell0), <<"x">>, info, None, r),
        Fragment(Some(guid), Some(span), Some(cell0), id, None, None, r)}

\* parse_page has found the div.qblock fragments of a page and is about to
\* loop over them with an empty task list.
ParseInit ==
    /\ CheckIdle /\ FormatIdle /\ FactoryIdle /\ PagesIdle /\ LifecycleIdle /\ SaveIdle /\ PersistIdle
    /\ prParser \in Parsers
    /\ prBlocks \in SeqsUpTo(PageFragments, MaxFragments)
    /\ prPc = "parsing"
    /\ prLog = <<>>
    /\ prTasks = <<>>

\* What one turn of the loop does with the outcome of the extraction: a
\* task is appended, None is passed over, an exception leaves parse_page.
LoopTurn(outcome) ==
    /\ prLog' = Append(prLog, outcome)
    /\ IF ~outcome.ok
       THEN prPc' = "raised" /\ prTasks' = prTasks
       ELSE /\ prPc' = prPc
            /\ prTasks' = IF outcome.v.some THEN Append(prTasks, outcome.v.v) ELSE prTasks
    /\ UNCHANGED <<prParser, prBlocks, checkVars, formatVars, factoryVars, pagesVars, lifecycleVars, saveVars, persistVars>>

\* One turn of the loop of BaseParser.parse_page.
ParseTaskBlock ==
    /\ prPc = "parsing"
    /\ prParser.cls # "FIPIParser"
    /\ Len(prLog) < Len(prBlocks)
    /\ LoopTurn(parse_task_block(prParser, prBlocks[Len(prLog) + 1]))

\* One turn of the loop of FIPIParser.parse_page.
ParseTaskFromBlock ==
    /\ prPc = "parsing"
    /\ prParser.cls = "FIPIParser"
    /\ Len(prLog) < Len(prBlocks)
    /\ LoopTurn(parse_task_from_block(prParser, prBlocks[Len(prLog) + 1]))

\* The loop is over: parse_page returns tasks.
ParsePageReturn ==
    /\ prPc = "parsing"
    /\ Len(prLog) = Len(prBlocks)
    /\ prPc' = "done"
    /\ UNCHANGED <<prParser, prBlocks, prLog, prTasks, checkVars, formatVars, factoryVars, pagesVars, lifecycleVars, saveVars, persistVars>>

ParseNext == ParseTaskBlock \/ ParseTaskFromBlock \/ ParsePageReturn

SpecParse == ParseInit /\ [][ParseNext]_vars


(***************************************************************************)
(* Properties of parse_page                                                *)
(***************************************************************************)

\* The fragments the loop has dealt with so far.
Handled == 1..Len(prLog)

HasGuidControl(block) == block.guid.some

\* The outcome for fragment i was a Task.
GaveTask(i) == prLog[i].ok /\ prLog[i].v.some

\* C3: a fragment without a "guid" control is extracted as None and adds no
\* record, and parse_page never holds more records than it has seen
\* fragments with a guid control.
C3_NoGuidNoRecord ==
    /\ \A i \in Handled : ~HasGuidControl(prBlocks[i]) => prLog[i] = Returned(None)
    /\ Len(prTasks) <= Cardinality({i \in Handled : HasGuidControl(prBlocks[i])})
    /\ \A k \in 1..Len(prTasks) :
           \E i \in Handled : HasGuidControl(prBlocks[i]) /\ prLog[i] = Returned(Some(prTasks[k]))

\* A page mixing fragments with and without the control has been parsed.
C3_Witness ==
    /\ prPc = "done"
    /\ \E i, j \in Handled :
           /\ ~HasGuidControl(prBlocks[i])
           /\ HasGuidControl(prBlocks[j]) /\ GaveTask(j)
    /\ Len(prTasks) = 1

\* The tasks of the outcomes in a log, in order.
RECURSIVE RecordsOf(_)
RecordsOf(log) ==
    IF log = <<>> THEN <<>>
    ELSE (IF Head(log).ok /\ Head(log).v.some THEN <<Head(log).v.v>> ELSE <<>>)
         \o RecordsOf(Tail(log))

\* The extraction of one fragment taken on its own.
ExtractionOf(self, block) ==
    IF self.cls = "FIPIParser" THEN parse_task_from_block(self, block)
    ELSE parse_task_block(self, block)

\* The classifier raises on this fragment.
ClassifierRaises(self, block) ==
    IF self.cls = "FIPIParser" THEN ~ParseTaskFromBlockBody(self, block).ok
    ELSE ~ParseTaskBlockBody(self, block).ok

\* C4: no fragment makes parse_page fail; each fragment is extracted as it
\* would be alone, whatever happened to the fragments before it; all
\* fragments have been dealt with when parse_page returns; and the list is
\* the records of the fragments that gave one, in document order.
C4_FragmentFailureIsolated ==
    /\ prPc # "raised"
    /\ \A i \in Handled : prLog[i] = ExtractionOf(prParser, prBlocks[i])
    /\ prPc = "done" => Len(prLog) = Len(prBlocks)
    /\ prTasks = RecordsOf(prLog)

\* A fragment on which the classifier raised was followed by one that gave
\* a record.
C4_Witness ==
    /\ prPc = "done"
    /\ \E i, j \in Handled :
           /\ i < j
           /\ ClassifierRaises(prParser, prBlocks[i])
           /\ GaveTask(j)

\* The shape the decision order gives for a combination of controls.
FirstMatch(text, checkbox, select) ==
    IF text THEN SHORT_ANSWER
    ELSE IF checkbox THEN MULTIPLE_CHOICE
    ELSE IF select THEN MATCHING
    ELSE SHORT_ANSWER

\* The regions of a fragment: the rest, and div.varinats-block if present.
RegionsOf(block) ==
    {block.rest} \cup (IF block.variants_block.some THEN {block.variants_block.v} ELSE {})

\* C5 as stated: the shape follows the first-match order over the controls
\* of the whole fragment.
C5_AsStated ==
    \A i \in Handled : GaveTask(i) =>
        LET block == prBlocks[i] IN
        prLog[i].v.v.task_type =
            FirstMatch(\E r \in RegionsOf(block) : HasTextInput(r),
                       \E r \in RegionsOf(block) : HasCheckboxes(r),
                       \E r \in RegionsOf(block) : HasSelects(r))

\* C5: every Task's shape follows the first-match order over the controls of
\* the region the classifier looks at (div.varinats-block when the fragment
\* has one, else the whole fragment): text input, then checkbox, then
\* select, else free text with no unit and no other answer field.
C5_FirstMatchInInspectedRegion ==
    \A i \in Handled : GaveTask(i) =>
        LET region == InspectedRegion(prBlocks[i])
            task == prLog[i].v.v
        IN /\ task.task_type =
                  FirstMatch(HasTextInput(region), HasCheckboxes(region), HasSelects(region))
           /\ (~HasTextInput(region) /\ ~HasCheckboxes(region) /\ ~HasSelects(region))
                  => /\ task.answer_unit = None
                     /\ task.answer_variants = None
                     /\ task.matching_options = None
                     /\ task.matching_choices = None

\* Fragments with all three kinds of control, with checkboxes and selects
\* only, and with no control have been classified.
C5_Witness ==
    /\ prPc = "done"
    /\ \E i \in Handled :
           LET region == InspectedRegion(prBlocks[i]) IN
           /\ GaveTask(i)
           /\ HasTextInput(region) /\ HasCheckboxes(region) /\ HasSelects(region)
           /\ prLog[i].v.v.task_type = SHORT_ANSWER
    /\ \E i \in Handled :
           LET region == InspectedRegion(prBlocks[i]) IN
           /\ GaveTask(i)
           /\ ~HasTextInput(region) /\ HasCheckboxes(region) /\ HasSelects(region)
           /\ prLog[i].v.v.task_type = MULTIPLE_CHOICE


(***************************************************************************)
(* Subject table, registries and construction of parsers and checkers      *)
(***************************************************************************)

MaxRegistrations == 2   \* register_parser / register_checker calls after import

ValueError == "ValueError"

SubjectConfig(subject_key, project_id) ==
    [subject_key |-> subject_key, project_id |-> project_id]

\* fipilib.models.config.SUBJECTS
SUBJECTS ==
    [k \in {"physics", "math_prof", "russian"} |->
        SubjectConfig(k, CASE k = "physics" -> "BA1F39653304A5B041B656915DC36B38"
                           [] k = "math_prof" -> "AC437B34557F88EA4115D2F374B0A07B"
                           [] k = "russian" -> "CA9D848CF10554A28617021C9211069B")]

\* src.config.SUBJECTS, the table of the older FIPIParser
LegacySUBJECTS ==
    [k \in {"physics", "math_prof"} |->
        [id |-> SUBJECTS[k].project_id, name_en |-> k]]

\* get_subject_config: the table entry, ValueError for a key not in the table.
GetSubjectConfigLenient(subject_key) == Returned(SubjectConfig(subject_key, ""))
get_subject_config(subject_key) ==
    IF subject_key \notin DOMAIN SUBJECTS THEN Raised(ValueError)
    ELSE Returned(SUBJECTS[subject_key])

\* Where a caller can take cookies from.
CookieSources == {"none", "dict", "file", "missing file"}

\* SessionManager.__init__: a requests.Session, then the cookies of the
\* dict, or of the first cookie file that exists.
SessionManager(cookie_source) ==
    <<"requests.Session">>
        \o (CASE cookie_source = "dict" -> <<"cookies.update">>
              [] cookie_source = "file" -> <<"load_cookies">>
              [] OTHER -> <<>>)

\* What serving a construction request gives: the result and the effects.
Served(res, trace) == [res |-> res, trace |-> trace]

\* get_parser / get_checker on a registry: the configuration first, then the
\* registered class or the default one, built with a SessionManager.
GetFromRegistry(registry, default, subject_key, cookie_source) ==
    LET config == get_subject_config(subject_key) IN
    IF ~config.ok THEN Served(config, <<>>)
    ELSE Served(Returned([cls |-> IF subject_key \in DOMAIN registry
                                  THEN registry[subject_key] ELSE default,
                          config |-> config.v]),
                SessionManager(cookie_source))

get_parser(subject_key, cookie_source) ==
    GetFromRegistry(_PARSERS, "DefaultParser", subject_key, cookie_source)
get_checker(subject_key, cookie_source) ==
    GetFromRegistry(_CHECKERS, "DefaultChecker", subject_key, cookie_source)

\* FIPIParser.__init__: ValueError before the session for a key that is not
\* in the older table.
FIPIParserInit(subject_key) ==
    IF subject_key \notin DOMAIN LegacySUBJECTS THEN Served(Raised(ValueError), <<>>)
    ELSE Served(Returned([cls |-> "FIPIParser",
                          config |-> SubjectConfig(LegacySUBJECTS[subject_key].name_en,
                                                   LegacySUBJECTS[subject_key].id)]),
                <<"requests.Session">>)

\* register_parser / register_checker: _REGISTRY[subject_key] = cls
Registered(registry, subject_key, cls) ==
    [k \in DOMAIN registry \cup {subject_key} |->
        IF k = subject_key THEN cls ELSE registry[k]]

\* Keys a caller may ask for, and what a caller may register later.
RequestKeys == {"physics", "math_prof", "russian", "chemistry", ""}
LateKeys == {"russian", "chemistry"}
LateParsers == {"PhysicsParser", "DefaultParser"}
LateCheckers == {"PhysicsChecker", "DefaultChecker"}

\* The state after "import fipilib.subjects": register_physics(),
\* register_math_prof(), register_russian() have run, register_default()
\* registered nothing.
FactoryInit ==
    /\ CheckIdle /\ FormatIdle /\ ParseIdle /\ PagesIdle /\ LifecycleIdle /\ SaveIdle /\ PersistIdle
    /\ _PARSERS = [k \in {"physics", "math_prof", "russian"} |->
                      CASE k = "physics" -> "PhysicsParser"
                        [] k = "math_prof" -> "MathProfParser"
                        [] k = "russian" -> "RussianParser"]
    /\ _CHECKERS = [k \in {"physics", "math_prof", "russian"} |->
                      CASE k = "physics" -> "PhysicsChecker"
                        [] k = "math_prof" -> "MathProfChecker"
                        [] k = "russian" -> "RussianChecker"]
    /\ fcRegs = 0
    /\ fcReq = NotCalled
    /\ fcPc = "ready"
    /\ fcOut = NotCalled
    /\ fcTrace = <<>>

RegisterParser ==
    /\ fcPc = "ready" /\ fcRegs < MaxRegistrations
    /\ \E k \in LateKeys, cls \in LateParsers : _PARSERS' = Registered(_PARSERS, k, cls)
    /\ fcRegs' = fcRegs + 1
    /\ UNCHANGED <<_CHECKERS, fcReq, fcPc, fcOut, fcTrace,
                   checkVars, formatVars, parseVars, pagesVars, lifecycleVars, saveVars, persistVars>>

RegisterChecker ==
    /\ fcPc = "ready" /\ fcRegs < MaxRegistrations
    /\ \E k \in LateKeys, cls \in LateCheckers : _CHECKERS' = Registered(_CHECKERS, k, cls)
    /\ fcRegs' = fcRegs + 1
    /\ UNCHANGED <<_PARSERS, fcReq, fcPc, fcOut, fcTrace,
                   checkVars, formatVars, parseVars, pagesVars, lifecycleVars, saveVars, persistVars>>

\* The request is served: its result and its effects are recorded.
Serve(req, served) ==
    /\ fcReq' = req
    /\ fcOut' = served.res
    /\ fcTrace' = served.trace
    /\ fcPc' = "returned"
    /\ UNCHANGED <<_PARSERS, _CHECKERS, fcRegs,
                   checkVars, formatVars, parseVars, pagesVars, lifecycleVars, saveVars, persistVars>>

GetParser ==
    /\ fcPc = "ready"
    /\ \E k \in RequestKeys, c \in CookieSources :
        Serve([fn |-> "get_parser", key |-> k, cookies |-> c], get_parser(k, c))

GetChecker ==
    /\ fcPc = "ready"
    /\ \E k \in RequestKeys, c \in CookieSources :
        Serve([fn |-> "get_checker", key |-> k, cookies |-> c], get_checker(k, c))

NewFIPIParser ==
    /\ fcPc = "ready"
    /\ \E k \in RequestKeys :
        Serve([fn |-> "FIPIParser", key |-> k, cookies |-> "none"], FIPIParserInit(k))

FactoryNext == RegisterParser \/ RegisterChecker \/ GetParser \/ GetChecker \/ NewFIPIParser

SpecFactory == FactoryInit /\ [][FactoryNext]_vars

\* The table and the registry a request consults, and the default class.
TableOf(req) == IF req.fn = "FIPIParser" THEN DOMAIN LegacySUBJECTS ELSE DOMAIN SUBJECTS
ClassFor(req) ==
    CASE req.fn = "FIPIParser" -> "FIPIParser"
      [] req.fn = "get_parser" ->
            IF req.key \in DOMAIN _PARSERS THEN _PARSERS[req.key] ELSE "DefaultParser"
      [] req.fn = "get_checker" ->
            IF req.key \in DOMAIN _CHECKERS THEN _CHECKERS[req.key] ELSE "DefaultChecker"

\* C9: a request for a key outside the subject table ends in ValueError with
\* no session created, no cookie loaded and no request made; a request for a
\* key of the table returns the class registered for the key (the default
\* class without registration), configured for that key.
C9_UnknownSubjectRaisesFirst ==
    fcPc = "returned" =>
        IF fcReq.key \notin TableOf(fcReq)
        THEN fcOut = Raised(ValueError) /\ fcTrace = <<>>
        ELSE /\ fcOut.ok
             /\ fcOut.v.cls = ClassFor(fcReq)
             /\ fcOut.v.config.subject_key = fcReq.key

\* A parser was asked for a key that has a registered class but no table entry.
C9_Witness ==
    /\ fcPc = "returned"
    /\ fcReq.fn = "get_parser"
    /\ fcReq.key = "chemistry"
    /\ "chemistry" \in DOMAIN _PARSERS
    /\ fcReq.cookies = "file"
    /\ ~fcOut.ok


(***************************************************************************)
(* Multi-page runs: parse_multiple_pages and parse_all_tasks               *)
(***************************************************************************)

MaxPages == 3        \* num_pages a caller asks for
MaxPageTasks == 2    \* tasks parsed and saved from one page
MaxAllTasks == 2     \* tasks a parse_all_tasks run is followed for
MaxPeriod == 4       \* longest period of a portal that serves tasks periodically

max_empty_pages == 3
PageCeiling == 1000

\* What the portal does with one listing GET: the request fails (timeout,
\* connection error, 4xx/5xx status) or a page comes back from which n tasks
\* are parsed and saved.
FetchFailures == {"Timeout", "HTTPError"}
Fetches ==
    {[failed |-> TRUE, exc |-> e, tasks |-> 0] : e \in FetchFailures}
        \cup {[failed |-> FALSE, exc |-> "", tasks |-> n] : n \in 0..MaxPageTasks}

\* What the portal serves during one run.  AnyPortal answers every request
\* with any of Fetches.  A periodic portal has tasks on the pages whose
\* number is a multiple of its period and answers every other page with
\* its gap outcome (an empty page or a failed request); such a run is as
\* long as the code lets it be.
AnyPortal == [kind |-> "any"]
Periodic(period, gap) == [kind |-> "periodic", period |-> period, gap |-> gap]
Gaps == {[failed |-> FALSE, exc |-> "", tasks |-> 0],
         [failed |-> TRUE, exc |-> "Timeout", tasks |-> 0]}
Portals == {AnyPortal} \cup {Periodic(k, g) : k \in 1..MaxPeriod, g \in Gaps}

\* The outcomes the portal can give to a GET of the page.
FetchesAt(portal, page) ==
    IF portal.kind = "any" THEN Fetches
    ELSE IF page % portal.period = 0
         THEN {[failed |-> FALSE, exc |-> "", tasks |-> 1]}
         ELSE {portal.gap}

\* get_questions_page: the text of the page, "" when the request failed.
EmptyText == [blank |-> TRUE, tasks |-> 0]
get_questions_page(fetch) ==
    IF fetch.failed THEN EmptyText ELSE [blank |-> FALSE, tasks |-> fetch.tasks]

\* parse_and_save: [] for a page that could not be fetched, else the tasks
\* parsed from it and saved, in page order.
parse_and_save(page, fetch) ==
    LET html == get_questions_page(fetch) IN
    IF html.blank THEN <<>>
    ELSE [k \in 1..html.tasks |-> [page |-> page, nth |-> k]]

\* A listing request as the run made it.
ListingRequest(purpose, page, fetch) ==
    [purpose |-> purpose, page |-> page, failed |-> fetch.failed, tasks |-> fetch.tasks]

Run(fn, start_page, num_pages, max_tasks) ==
    [fn |-> fn, start_page |-> start_page, num_pages |-> num_pages, max_tasks |-> max_tasks]

MultiplePagesRuns ==
    {Run(fn, sp, n, None) :
        fn \in {"BaseParser.parse_multiple_pages", "FIPIParser.parse_multiple_pages"},
        sp \in {0, 1}, n \in 0..MaxPages}
AllTasksRuns ==
    {Run("FIPIParser.parse_all_tasks", 0, 0, m) :
        m \in {None} \cup {Some(k) : k \in 0..MaxAllTasks}}

PagesInit ==
    /\ CheckIdle /\ FormatIdle /\ ParseIdle /\ FactoryIdle /\ LifecycleIdle /\ SaveIdle /\ PersistIdle
    /\ pgRun \in MultiplePagesRuns \cup AllTasksRuns
    /\ pgPc = IF pgRun.fn = "FIPIParser.parse_all_tasks" THEN "count" ELSE "loop"
    /\ pgPage = pgRun.start_page
    /\ pgEmpty = 0
    /\ pgAll = <<>>
    /\ pgReqs = <<>>
    /\ pgPortal \in Portals

\* One turn of "for page in range(start_page, start_page + num_pages)":
\* the page is parsed and saved, its tasks are added, and a page without
\* tasks breaks the loop.
MultiplePagesTurn(fetch) ==
    LET tasks == parse_and_save(pgPage, fetch) IN
    /\ pgReqs' = Append(pgReqs, ListingRequest("page", pgPage, fetch))
    /\ pgAll' = pgAll \o tasks
    /\ IF tasks = <<>>
       THEN pgPc' = "returned" /\ pgPage' = pgPage
       ELSE pgPc' = pgPc /\ pgPage' = pgPage + 1
    /\ UNCHANGED <<pgRun, pgEmpty, pgPortal, checkVars, formatVars, parseVars, factoryVars, lifecycleVars, saveVars, persistVars>>

BaseParseMultiplePagesTurn ==
    /\ pgPc = "loop"
    /\ pgRun.fn = "BaseParser.parse_multiple_pages"
    /\ pgPage < pgRun.start_page + pgRun.num_pages
    /\ \E fetch \in FetchesAt(pgPortal, pgPage) : MultiplePagesTurn(fetch)

FIPIParseMultiplePagesTurn ==
    /\ pgPc = "loop"
    /\ pgRun.fn = "FIPIParser.parse_multiple_pages"
    /\ pgPage < pgRun.start_page + pgRun.num_pages
    /\ \E fetch \in FetchesAt(pgPortal, pgPage) : MultiplePagesTurn(fetch)

\* The range is used up: parse_multiple_pages returns all_tasks.
MultiplePagesReturn ==
    /\ pgPc = "loop"
    /\ pgRun.fn # "FIPIParser.parse_all_tasks"
    /\ pgPage >= pgRun.start_page + pgRun.num_pages
    /\ pgPc' = "returned"
    /\ UNCHANGED <<pgRun, pgPage, pgEmpty, pgAll, pgReqs, pgPortal,
                   checkVars, formatVars, parseVars, factoryVars, lifecycleVars, saveVars, persistVars>>

\* get_total_tasks_count at the start of parse_all_tasks: one GET of page 0;
\* the count is only printed.
GetTotalTasksCount ==
    /\ pgPc = "count"
    /\ \E fetch \in FetchesAt(pgPortal, 0) :
           pgReqs' = Append(pgReqs, ListingRequest("count", 0, fetch))
    /\ pgPc' = "loop"
    /\ UNCHANGED <<pgRun, pgPage, pgEmpty, pgAll, pgPortal,
                   checkVars, formatVars, parseVars, factoryVars, lifecycleVars, saveVars, persistVars>>

\* "if max_tasks and len(all_tasks) >= max_tasks"
LimitReached(max_tasks, all_tasks) ==
    max_tasks.some /\ max_tasks.v # 0 /\ Len(all_tasks) >= max_tasks.v

\* "if tasks: ... empty_pages = 0 / else: empty_pages += 1"
EmptyPagesNeverReset(tasks, empty_pages) ==
    IF tasks # <<>> THEN empty_pages ELSE empty_pages + 1
CountEmptyPages(tasks, empty_pages) ==
    IF tasks # <<>> THEN 0 ELSE empty_pages + 1

\* "if page > 1000", tested after "page += 1"
CeilingIgnored(page) == FALSE
CeilingPassed(page) == page > PageCeiling

\* One turn of "while True" in parse_all_tasks.  Under AnyPortal the run is
\* followed until all_tasks holds MaxAllTasks tasks and from then on only
\* through pages that add nothing.
ParseAllTasksTurn ==
    /\ pgPc = "loop"
    /\ pgRun.fn = "FIPIParser.parse_all_tasks"
    /\ IF LimitReached(pgRun.max_tasks, pgAll)
       THEN /\ pgPc' = "returned"
            /\ UNCHANGED <<pgPage, pgEmpty, pgAll, pgReqs>>
       ELSE \E fetch \in FetchesAt(pgPortal, pgPage) :
            LET tasks == parse_and_save(pgPage, fetch)
                empty_pages == CountEmptyPages(tasks, pgEmpty)
            IN /\ pgPortal.kind = "any" => (Len(pgAll) < MaxAllTasks \/ tasks = <<>>)
               /\ pgReqs' = Append(pgReqs, ListingRequest("page", pgPage, fetch))
               /\ pgAll' = pgAll \o tasks
               /\ pgEmpty' = empty_pages
               /\ IF tasks = <<>> /\ empty_pages >= max_empty_pages
                  THEN pgPc' = "returned" /\ pgPage' = pgPage
                  ELSE /\ pgPage' = pgPage + 1
                       /\ pgPc' = IF CeilingPassed(pgPage + 1) THEN "returned" ELSE "loop"
    /\ UNCHANGED <<pgRun, pgPortal, checkVars, formatVars, parseVars, factoryVars, lifecycleVars, saveVars, persistVars>>

PagesNext ==
    \/ BaseParseMultiplePagesTurn
    \/ FIPIParseMultiplePagesTurn
    \/ MultiplePagesReturn
    \/ GetTotalTasksCount
    \/ ParseAllTasksTurn

SpecPages == PagesInit /\ [][PagesNext]_vars

\* The page requests of the loop, without the counting request.
PageRequests == SelectSeq(pgReqs, LAMBDA r : r.purpose = "page")

\* The run ended for one of the configured reasons: every page asked for has
\* been requested, the task limit is reached, max_empty_pages pages in a row
\* gave nothing, or the page ceiling is passed.
StopConditionMet ==
    \/ /\ pgRun.fn # "FIPIParser.parse_all_tasks"
       /\ Len(PageRequests) = pgRun.num_pages
    \/ /\ pgRun.fn = "FIPIParser.parse_all_tasks"
       /\ \/ LimitReached(pgRun.max_tasks, pgAll)
          \/ pgEmpty >= max_empty_pages
          \/ pgPage > PageCeiling

\* C10 as stated: a run never ends on a page that failed or gave nothing
\* unless a configured stop condition is met.
C10_AsStated ==
    (/\ pgPc = "returned"
     /\ PageRequests # <<>>
     /\ PageRequests[Len(PageRequests)].tasks = 0)
        => StopConditionMet

\* A run is one sequential call: every GET carries timeout=REQUEST_TIMEOUT
\* and parsing and saving a page are finite, so a turn that can be taken is
\* taken.
SpecPagesFair == SpecPages /\ WF_vars(PagesNext)

IsAllTasksRun == pgRun.fn = "FIPIParser.parse_all_tasks"

LastPageRequests(n) == SubSeq(PageRequests, Len(PageRequests) - n + 1, Len(PageRequests))

\* The three reasons for which parse_all_tasks may stop, read from what the
\* run did: all_tasks holds at least max_tasks tasks; the last
\* max_empty_pages pages requested gave no saved task; pages 0..1000 have
\* all been requested.
StoppedOnLimit == pgRun.max_tasks.some /\ Len(pgAll) >= pgRun.max_tasks.v
StoppedOnEmptyPages ==
    /\ Len(PageRequests) >= max_empty_pages
    /\ \A r \in Elements(LastPageRequests(max_empty_pages)) : r.tasks = 0
StoppedOnCeiling ==
    /\ Len(PageRequests) = PageCeiling + 1
    /\ PageRequests[Len(PageRequests)].page = PageCeiling

AllTasksSafe ==
    IsAllTasksRun =>
        /\ \A r \in Elements(pgReqs) : r.page <= PageCeiling
        /\ pgPc = "returned" => (StoppedOnLimit \/ StoppedOnEmptyPages \/ StoppedOnCeiling)

\* C11: parse_all_tasks terminates whatever the pages give; it stops only
\* because the task limit is reached, because three pages in a row gave no
\* saved task, or because the page ceiling of 1000 is passed; and it never
\* requests a page above 1000.
C11_TerminatesForConfiguredReasons ==
    /\ []AllTasksSafe
    /\ <>(IsAllTasksRun => pgPc = "returned")

\* A run that went on to the ceiling: page 1000 was requested and the run
\* returned without a limit and without three empty pages in a row.
C11_Witness ==
    /\ IsAllTasksRun /\ pgPc = "returned"
    /\ StoppedOnCeiling
    /\ ~StoppedOnLimit /\ ~StoppedOnEmptyPages

\* The number of page requests at the end of reqs that saved nothing.
RECURSIVE TrailingEmpty(_)
TrailingEmpty(reqs) ==
    IF reqs = <<>> \/ reqs[Len(reqs)].tasks # 0 THEN 0
    ELSE 1 + TrailingEmpty(SubSeq(reqs, 1, Len(reqs) - 1))

\* The number of the last page that saved a task, -1 when there is none
\* (the loop requests pages 0, 1, 2, ... in order).
LastNonEmptyPage == Len(PageRequests) - TrailingEmpty(PageRequests) - 1

EndedWithoutLimit ==
    /\ IsAllTasksRun /\ pgPc = "returned"
    /\ ~LimitReached(pgRun.max_tasks, pgAll)

\* C12 as stated: a run that ended, without a task limit applying, on pages
\* that gave nothing made exactly 3 page requests beyond the last
\* non-empty page.
C12_AsStated ==
    (EndedWithoutLimit /\ TrailingEmpty(PageRequests) > 0)
        => TrailingEmpty(PageRequests) = max_empty_pages

Min(a, b) == IF a < b THEN a ELSE b

\* C12: empty_pages is the number of page requests in a row, up to the
\* latest one, that saved nothing (a page that saves a task resets it); the
\* loop goes on while it is below 3; and a run that ends without a task
\* limit applying has made exactly 3 page requests beyond the last
\* non-empty page, or, when that page is 998 or later, the requests of the
\* pages up to page 1000 only.
C12_ConsecutiveEmptyPagesStop ==
    LET reqs == PageRequests IN
    IsAllTasksRun =>
        /\ \A i \in 1..Len(reqs) : reqs[i].page = i - 1
        /\ pgEmpty = TrailingEmpty(reqs)
        /\ pgPc = "loop" => pgEmpty < max_empty_pages
        /\ EndedWithoutLimit =>
               TrailingEmpty(reqs) = Min(max_empty_pages, PageCeiling - LastNonEmptyPage)

\* A run that met empty pages, then a page with tasks, and ended on three
\* empty pages in a row.
C12_Witness ==
    /\ EndedWithoutLimit
    /\ TrailingEmpty(PageRequests) = max_empty_pages
    /\ \E i, j \in 1..Len(PageRequests) :
           i < j /\ PageRequests[i].tasks = 0 /\ PageRequests[j].tasks > 0

\* C25 as stated: a parse_all_tasks run with a task limit max_tasks >= 1
\* never returns more than max_tasks tasks.
C25_AsStated ==
    (/\ IsAllTasksRun /\ pgPc = "returned"
     /\ pgRun.max_tasks.some /\ pgRun.max_tasks.v >= 1)
        => Len(pgAll) <= pgRun.max_tasks.v


(***************************************************************************)
(* Properties of submission: delay, result codes, validation               *)
(***************************************************************************)

\* C13 as stated: a submission that reached the network issued exactly one
\* POST and then slept for the configured delay before returning, whatever
\* became of the request.
C13_AsStated ==
    (ckPc = "returned" /\ net # <<>>) => net = <<"POST", "sleep">>

\* C14 as stated: no submission, by any of the three submitters and for any
\* response body, returns the result partially_correct.
C14_AsStated ==
    (ckPc = "returned" /\ ckOut.ok) => Resp.result # "partially_correct"

(***************************************************************************)
(* Properties of validation and of formatting a string                     *)
(***************************************************************************)

IsValidateCall == fmPc = "returned" /\ fmReq.fn = "validate_answer_format"
IsFormatCall == fmPc = "returned" /\ fmReq.fn = "format_answer"

\* C19 as stated: every short answer the math validation accepts is
\* accepted by the physics validation too.
C19_AsStated ==
    (/\ IsValidateCall /\ fmReq.checker = "MathProfChecker"
     /\ fmReq.task.task_type = "short_answer"
     /\ fmOut.v)
        => PhysicsValidateAnswerFormat(fmReq.task, fmReq.value)

\* C20: for a multiple-choice or matching task and a caller value that is a
\* str, format_answer of every subject's checker returns that very string:
\* same characters, same order, same length.
C20_StringPassedThrough ==
    (/\ IsFormatCall
     /\ fmReq.task.task_type \in {"multiple_choice", "matching"}
     /\ fmReq.value.kind = "str")
        => fmOut = Returned(fmReq.value.s)

\* A string with whitespace around and inside it, of a length other than
\* the number of options, went through the multiple-choice formatting of
\* a subject checker.
C20_Witness ==
    /\ IsFormatCall
    /\ fmReq.checker = "RussianChecker"
    /\ fmReq.task.task_type = "multiple_choice"
    /\ fmReq.value = PyStrVal(<<" ", "5", "\t">>)
    /\ fmOut.ok /\ Len(fmOut.v) # NumVariants(fmReq.task) + 1


\* The Russian-language validation of a short answer has returned.
IsRussianValidation ==
    /\ IsValidateCall /\ fmReq.checker = "RussianChecker"
    /\ fmReq.task.task_type = "short_answer"

\* C22 as stated: the Russian-language validation of a short answer returns
\* True for every value whose string form has at least one character, and
\* False only for the empty string.
C22_AsStated ==
    IsRussianValidation => (fmOut.v <=> Len(PyStr(fmReq.value)) > 0)

\* C22: the Russian-language validation of a short answer returns True
\* exactly when the string form of the value has at least one character
\* that is not whitespace; the empty string and strings of whitespace only
\* are rejected.
C22_NonBlankAccepted ==
    IsRussianValidation =>
        LET str == PyStr(fmReq.value)
        IN  fmOut.v <=> (\E i \in 1..Len(str) : str[i] \notin Whitespace)

\* A string of spaces only was validated and rejected.
C22_Witness ==
    /\ IsRussianValidation
    /\ fmReq.value = PyStrVal(<<" ", " ">>)
    /\ fmOut = Returned(FALSE)


\* A sequence of indices was formatted for a multiple-choice task that has
\* no known options.
FormattedWithoutOptions ==
    /\ fmPc = "returned"
    /\ fmReq.fn \in {"format_answer", "format_answer_for_check", "_format_answer"}
    /\ fmReq.task \in NoOptionTasks
    /\ fmReq.value.kind = "list"

\* C21 as stated: for a multiple-choice task without known options, every
\* checker formats a sequence of indices without failing, into a string of
\* width 5 that has '1' exactly at the supplied indices in 0..4.
C21_AsStated ==
    FormattedWithoutOptions =>
        fmOut = Returned(MarkBits([i \in 1..FallbackWidth |-> "0"],
                                  [i \in 1..Len(fmReq.value.xs) |-> fmReq.value.xs[i].n]))


\* The call is a check_answer of a fipilib checker that has returned.
BaseCheckReturned == ckPc = "returned" /\ ckReq.checker \in BaseCheckers

\* validate_answer_format of the checker says False for the call's answer.
JudgedInvalid == ~ValidateAnswerFormatOf(ckReq.checker, ckReq.task, ckReq.input)

\* C18: check_answer formats the value and sends the POST whatever
\* validate_answer_format says about it: whenever formatting returns, one
\* POST is made with the formatted string, and the result is the one the
\* portal's reply stands for (Error when the transport failed).
C18_ValidationAdvisory ==
    BaseCheckReturned =>
        LET fmt == FormatAnswerOf(ckReq.checker, ckReq.task, ckReq.input)
            t == ckReq.transport
        IN  fmt.ok =>
              /\ net # <<>> /\ net[1] = "POST"
              /\ ckOut.ok /\ Resp.user_answer = fmt.v
              /\ Resp.result = IF TransportFailed(ckReq.checker, t)
                               THEN "error"
                               ELSE _parse_result_code(Strip(t.body))

\* An answer the subject's validation rejects was sent and judged correct.
C18_Witness ==
    /\ BaseCheckReturned /\ JudgedInvalid
    /\ net = <<"POST", "sleep">>
    /\ Resp.result = "correct"


\* The POSTs among the network events of the call.
Posts == SelectSeq(net, LAMBDA ev : ev = "POST")

\* C28: BaseChecker.check_answer formats the answer outside its try: when
\* format_answer raises, the exception leaves check_answer and no POST is
\* made; when format_answer returns, exactly one POST is attempted and the
\* call returns a CheckResponse whose user_answer is the formatted string.
C28_FormatOutsideErrorHandling ==
    BaseCheckReturned =>
        LET fmt == FormatAnswerOf(ckReq.checker, ckReq.task, ckReq.input)
        IN  IF fmt.ok
            THEN Len(Posts) = 1 /\ ckOut.ok /\ Resp.user_answer = fmt.v
            ELSE net = <<>> /\ ~ckOut.ok /\ ckOut = fmt

\* A multiple-choice task was given an int: iterating it raises TypeError,
\* which left check_answer with nothing sent.
C28_Witness ==
    /\ BaseCheckReturned
    /\ ckReq.task.task_type = "multiple_choice"
    /\ ckReq.input.kind = "int"
    /\ ckOut = Raised("TypeError")
    /\ net = <<>>


(***************************************************************************)
(* Properties of the records a listing page gives                          *)
(***************************************************************************)

\* C15 as stated: a fragment that has the guid control and no cell_0
\* container gives no Task.
C15_AsStated ==
    \A i \in Handled :
        (HasGuidControl(prBlocks[i]) /\ ~prBlocks[i].cell0.some) => ~GaveTask(i)


\* The distinct image sources in the question markup of a fragment.
DistinctSources(block) ==
    IF block.cell0.some
    THEN {block.cell0.v.show[k] : k \in 1..Len(block.cell0.v.show)}
         \cup {block.cell0.v.img[k] : k \in 1..Len(block.cell0.v.img)}
    ELSE {}

\* C23 as stated: the images of every Task, as created, are as many as the
\* distinct image sources in its question markup.
C23_AsStated ==
    \A i \in Handled :
        GaveTask(i) => Len(prLog[i].v.v.images) = Cardinality(DistinctSources(prBlocks[i]))

\* The fragments that gave a multiple-choice Task.
GaveMultipleChoice == {i \in Handled : GaveTask(i) /\ prLog[i].v.v.task_type = MULTIPLE_CHOICE}

\* The rows of the region the classifier looked at, and the options of the
\* Task it gave.
RowsInspected(i) == InspectedRegion(prBlocks[i]).rows
OptionsOf(i) == prLog[i].v.v.answer_variants.v

\* The zero-based position of row m among the rows tagged active-distractor.
PositionAmongActive(rows, m) == Cardinality({k \in 1..(m - 1) : rows[k].active})

\* Option o is made of row m: its index is the position of the row among
\* the active rows, its text the last cell, its field name the name of the
\* checkbox or test<index>.
MadeOfRow(o, rows, m) ==
    /\ o.index = PositionAmongActive(rows, m)
    /\ o.text = rows[m].cells[Len(rows[m].cells)]
    /\ o.input_name = IF rows[m].checkbox.name.some THEN rows[m].checkbox.name.v
                       ELSE TestName(o.index)

\* C24 as stated: the options of a multiple-choice Task are exactly the
\* rows tagged active-distractor, in document order, each with its
\* zero-based position among the active rows as index.
C24_AsStated ==
    \A i \in GaveMultipleChoice :
        LET rows == RowsInspected(i)
            tagged == {m \in 1..Len(rows) : rows[m].active}
        IN  /\ Len(OptionsOf(i)) = Cardinality(tagged)
            /\ \A j \in 1..Len(OptionsOf(i)) : OptionsOf(i)[j].index = j - 1

\* C24: the options of a multiple-choice Task are exactly the rows tagged
\* active-distractor that contain a checkbox, in document order; the index
\* of an option is the zero-based position of its row among all the tagged
\* rows (with or without checkbox); a row that is not tagged gives no
\* option even with a checkbox; an option whose checkbox has no name gets
\* the field name test<index>.
C24_OptionsAreActiveCheckboxRows ==
    \A i \in GaveMultipleChoice :
        LET rows == RowsInspected(i)
            options == OptionsOf(i)
            option_rows == {m \in 1..Len(rows) : rows[m].active /\ rows[m].checkbox.present}
        IN  /\ Len(options) = Cardinality(option_rows)
            /\ \A j \in 1..Len(options) : \E m \in option_rows : MadeOfRow(options[j], rows, m)
            /\ \A j, k \in 1..Len(options) : j < k => options[j].index < options[k].index

\* A region with a tagged row without checkbox, a tagged row with a named
\* checkbox, an untagged row with a checkbox and a tagged row with an unnamed
\* checkbox gave two options: index 1 with the checkbox's name, index 2
\* named test2.
C24_Witness ==
    \E i \in GaveMultipleChoice :
        /\ \E m \in 1..Len(RowsInspected(i)) :
               ~RowsInspected(i)[m].active /\ RowsInspected(i)[m].checkbox.present
        /\ \E m \in 1..Len(RowsInspected(i)) :
               RowsInspected(i)[m].active /\ ~RowsInspected(i)[m].checkbox.present
        /\ Len(OptionsOf(i)) = 2
        /\ OptionsOf(i)[1].index = 1
        /\ OptionsOf(i)[2].input_name = TestName(2)

\* C26 as stated: the option indices of a multiple-choice Task with n
\* options are exactly 0..n-1, and selecting any listed option by its index
\* puts a '1' into the string _format_multiple_choice makes for the Task.
C26_AsStated ==
    \A i \in GaveMultipleChoice :
        LET options == OptionsOf(i)
            n == Len(options)
        IN  /\ {options[j].index : j \in 1..n} = 0..(n - 1)
            /\ \A j \in 1..n :
                   LET wire == DefaultFormatMultipleChoice(prLog[i].v.v,
                                                           PyIntList(<<options[j].index>>))
                   IN  wire.ok /\ \E k \in 1..Len(wire.v) : wire.v[k] = "1"

\* C27 as stated: every Task parse_page gives has a non-empty guid and a
\* non-empty task_id, so a fragment whose guid control has an empty or
\* missing value gives no Task.
C27_AsStated ==
    \A i \in Handled :
        GaveTask(i) => prLog[i].v.v.guid # <<>> /\ prLog[i].v.v.task_id # <<>>

\* The Tasks parse_page has been given so far.
TasksGiven == {prLog[i].v.v : i \in {j \in Handled : GaveTask(j)}}

\* C17: the shape of a Task tells which answer fields are set: a
\* short-answer task has no answer_variants and no matching lists; a
\* multiple-choice task has answer_variants and no answer_unit and no
\* matching lists; a matching task has matching_options and
\* matching_choices and no answer_unit and no answer_variants.
C17_ShapeDeterminesFields ==
    \A t \in TasksGiven :
        CASE t.task_type = SHORT_ANSWER ->
                 ~t.answer_variants.some /\ ~t.matching_options.some /\ ~t.matching_choices.some
          [] t.task_type = MULTIPLE_CHOICE ->
                 /\ t.answer_variants.some
                 /\ ~t.answer_unit.some /\ ~t.matching_options.some /\ ~t.matching_choices.some
          [] t.task_type = MATCHING ->
                 /\ t.matching_options.some /\ t.matching_choices.some
                 /\ ~t.answer_unit.some /\ ~t.answer_variants.some
          [] OTHER -> FALSE

\* A page that gave a multiple-choice task with variants and a matching
\* task with options and choices, both from regions that also hold other
\* controls.
C17_Witness ==
    /\ prPc = "done"
    /\ \E t \in TasksGiven :
           t.task_type = MULTIPLE_CHOICE /\ t.answer_variants.v # <<>>
    /\ \E t \in TasksGiven :
           /\ t.task_type = MATCHING
           /\ t.matching_options.v # <<>> /\ t.matching_choices.v # <<>>
    /\ \E i \in Handled : HasSelects(prBlocks[i].rest) /\ HasCheckboxes(prBlocks[i].rest)


(***************************************************************************)
(* The life of a Task after its creation: subject post-processing, image   *)
(* download and saving.  Texts that the code searches for a word are       *)
(* sequences of words here, URLs and paths are sequences of segments with  *)
(* "/" as a segment of its own, and a small Cyrillic letter is "cyr_x".    *)
(***************************************************************************)

MaxImages == 2     \* image URLs found in one question

PyBoolVal(b) == [kind |-> "bool", b |-> b]

\* "k in d" and "d[k] = x" on a dict kept as its items in insertion order.
HasKey(kv, k) == \E i \in 1..Len(kv) : kv[i].k = k
DictSet(kv, k, x) ==
    IF HasKey(kv, k)
    THEN [i \in 1..Len(kv) |-> IF kv[i].k = k THEN Item(k, x) ELSE kv[i]]
    ELSE Append(kv, Item(k, x))

\* "word in text"
Contains(text, word) == \E i \in 1..Len(text) : text[i] = word

\* str.lower
LowerWord(w) ==
    CASE w = "Graph" -> "graph"
      [] w = "DIAGRAM" -> "diagram"
      [] w = "cyrAlgebra" -> "cyr_algebra"
      [] w = "cyrOrfografiya" -> "cyr_orfografiya"
      [] OTHER -> w
Lower(text) == [i \in 1..Len(text) |-> LowerWord(text[i])]

\* PhysicsParser._classify_unit
_classify_unit(unit) ==
    CASE unit \in {<<"cyr_em">>, <<"cyr_es", "cyr_em">>, <<"cyr_ka", "cyr_em">>,
                   <<"cyr_em", "cyr_em">>} -> "length"
      [] unit \in {<<"cyr_em", "/", "cyr_es">>, <<"cyr_ka", "cyr_em", "/", "cyr_che">>} -> "velocity"
      [] unit \in {<<"cyr_em", "/", "cyr_es", "sup2">>, <<"cyr_em", "/", "cyr_es", "2">>} -> "acceleration"
      [] unit \in {<<"cyrEn">>, <<"cyr_ka", "cyrEn">>} -> "force"
      [] unit \in {<<"cyrDe", "cyr_zhe">>, <<"cyr_ka", "cyrDe", "cyr_zhe">>,
                   <<"cyrEm", "cyrDe", "cyr_zhe">>, <<"cyr_e", "cyrVe">>,
                   <<"cyr_ka", "cyr_e", "cyrVe">>, <<"cyrEm", "cyr_e", "cyrVe">>} -> "energy"
      [] unit \in {<<"cyrVe", "cyr_te">>, <<"cyr_ka", "cyrVe", "cyr_te">>,
                   <<"cyrEm", "cyrVe", "cyr_te">>} -> "power"
      [] unit \in {<<"cyr_ka", "cyr_ge">>, <<"cyr_ge">>, <<"cyr_te">>} -> "mass"
      [] unit \in {<<"cyr_es">>, <<"cyr_em", "cyr_es">>, <<"cyr_em", "cyr_i", "cyr_en">>,
                   <<"cyr_che">>} -> "time"
      [] unit \in {<<"deg", "C">>, <<"K">>, <<"cyrKa">>} -> "temperature"
      [] unit \in {<<"deg">>, <<"cyr_er", "cyr_a", "cyr_de">>} -> "angle"
      [] OTHER -> "other"

\* "'m:math' in task.question_html or '$$' in task.question_html"
HasFormulas(question_html) == Contains(question_html, "m:math") \/ Contains(question_html, "$$")

\* "any('graph' in img.lower() or 'diagram' in img.lower() for img in task.images)"
LikelyHasGraph(images) ==
    \E i \in 1..Len(images) :
        Contains(Lower(images[i]), "graph") \/ Contains(Lower(images[i]), "diagram")

\* task.metadata[k] = x
SetMetadata(task, k, x) == [task EXCEPT !.metadata = DictSet(task.metadata, k, x)]

\* PhysicsParser.post_process_task
PhysicsPostProcessNamingUnit(task) ==
    LET t1 == IF Truthy(task.answer_unit)
              THEN [SetMetadata(task, "unit_type", PyStrVal(_classify_unit(task.answer_unit.v)))
                        EXCEPT !.answer_unit = Some(<<_classify_unit(task.answer_unit.v)>>)]
              ELSE task
        t2 == IF HasFormulas(t1.question_html)
              THEN SetMetadata(t1, "has_formulas", PyBoolVal(TRUE)) ELSE t1
    IN  IF t2.images # <<>>
        THEN SetMetadata(SetMetadata(t2, "image_count", PyIntVal(Len(t2.images))),
                         "likely_has_graph", PyBoolVal(LikelyHasGraph(t2.images)))
        ELSE t2
PhysicsPostProcessTask(task) ==
    LET t1 == IF Truthy(task.answer_unit)
              THEN SetMetadata(task, "unit_type", PyStrVal(_classify_unit(task.answer_unit.v)))
              ELSE task
        t2 == IF HasFormulas(t1.question_html)
              THEN SetMetadata(t1, "has_formulas", PyBoolVal(TRUE)) ELSE t1
    IN  IF t2.images # <<>>
        THEN SetMetadata(SetMetadata(t2, "image_count", PyIntVal(Len(t2.images))),
                         "likely_has_graph", PyBoolVal(LikelyHasGraph(t2.images)))
        ELSE t2

\* MathProfParser._classify_math_topic (kes_codes is not empty where it is called)
_classify_math_topic(kes_codes) ==
    LET first_code == Lower(kes_codes[1]) IN
    CASE Contains(first_code, "cyr_algebra") \/ Contains(first_code, "cyr_uravnenie") -> "algebra"
      [] Contains(first_code, "cyr_geometriya") \/ Contains(first_code, "cyr_treugolnik")
             \/ Contains(first_code, "cyr_okruzhnost") -> "geometry"
      [] Contains(first_code, "cyr_proizvodnaya") \/ Contains(first_code, "cyr_integral") -> "calculus"
      [] Contains(first_code, "cyr_funktsiya") -> "functions"
      [] Contains(first_code, "cyr_veroyatnost") \/ Contains(first_code, "cyr_statistika") -> "probability"
      [] OTHER -> "other"

\* MathProfParser.post_process_task
MathPostProcessTask(task) ==
    LET t1 == IF task.kes_codes # <<>>
              THEN SetMetadata(task, "math_topic", PyStrVal(_classify_math_topic(task.kes_codes)))
              ELSE task
        t2 == IF HasFormulas(t1.question_html)
              THEN SetMetadata(t1, "has_formulas", PyBoolVal(TRUE)) ELSE t1
    IN  IF t2.images # <<>>
        THEN SetMetadata(SetMetadata(t2, "has_visual", PyBoolVal(TRUE)),
                         "image_count", PyIntVal(Len(t2.images)))
        ELSE t2

\* RussianParser._classify_russian_topic
_classify_russian_topic(kes_codes) ==
    LET first_code == Lower(kes_codes[1]) IN
    CASE Contains(first_code, "cyr_orfografiya") -> "spelling"
      [] Contains(first_code, "cyr_punktuatsiya") -> "punctuation"
      [] Contains(first_code, "cyr_sintaksis") -> "syntax"
      [] Contains(first_code, "cyr_morfologiya") -> "morphology"
      [] Contains(first_code, "cyr_leksika") -> "lexicon"
      [] Contains(first_code, "cyr_stilistika") -> "style"
      [] OTHER -> "other"

SourceTextThreshold == 500

\* RussianParser.post_process_task
RussianPostProcessTask(task) ==
    LET t1 == IF task.kes_codes # <<>>
              THEN SetMetadata(task, "russian_topic",
                               PyStrVal(_classify_russian_topic(task.kes_codes)))
              ELSE task
        t2 == IF Len(t1.question_text) > SourceTextThreshold
              THEN SetMetadata(t1, "has_source_text", PyBoolVal(TRUE)) ELSE t1
    IN  IF t2.answer_variants.some /\ t2.answer_variants.v # <<>>
        THEN SetMetadata(t2, "variant_count", PyIntVal(Len(t2.answer_variants.v)))
        ELSE t2

\* self.post_process_task(task) of the parser's class.
PostProcessOf(self, task) ==
    CASE self.cls = "PhysicsParser" -> PhysicsPostProcessTask(task)
      [] self.cls = "MathProfParser" -> MathPostProcessTask(task)
      [] self.cls = "RussianParser" -> RussianPostProcessTask(task)
      [] OTHER -> post_process_task(self, task)

\* img_url.split('/')[-1]
RECURSIVE LastSegment(_)
LastSegment(url) ==
    IF url = <<>> \/ url[Len(url)] = "/" THEN <<>>
    ELSE Append(LastSegment(SubSeq(url, 1, Len(url) - 1)), url[Len(url)])

base_url == <<"https:", "/", "/", "ege.fipi.ru">>

\* "if not img_url.startswith('http'): ..." of _download_images
AbsoluteUrl(img_url) ==
    IF img_url # <<>> /\ Head(img_url) \in {"http:", "https:"} THEN img_url
    ELSE base_url \o (IF img_url # <<>> /\ Head(img_url) = "/" THEN img_url
                      ELSE <<"/">> \o img_url)

\* BaseParser._download_images, the loop over the first n images: the file
\* names of saved_paths; got[i] tells whether image i was fetched and written.
RECURSIVE DownloadedNames(_, _, _)
DownloadedNames(images, got, n) ==
    IF n = 0 THEN <<>>
    ELSE LET saved_paths == DownloadedNames(images, got, n - 1)
             name == LastSegment(AbsoluteUrl(images[n]))
             filename == IF name = <<>> \/ Contains(name, "?")
                         THEN <<"image_">> \o NatToStr(Len(saved_paths)) \o <<".png">>
                         ELSE name
         IN  IF got[n] THEN Append(saved_paths, filename) ELSE saved_paths

\* f"media/{p.split('/')[-1]}" for every downloaded path
MediaPaths(names) == [i \in 1..Len(names) |-> <<"media", "/">> \o names[i]]

\* The image step of BaseParser.parse_and_save: "if download_images and
\* task.images", then the download inside try/except and the new paths
\* when anything was downloaded.
LocalizeImages(task, download_images, raised, got) ==
    IF ~download_images \/ task.images = <<>> \/ raised THEN task
    ELSE LET downloaded_paths == DownloadedNames(task.images, got, Len(task.images))
         IN  IF downloaded_paths # <<>>
             THEN [task EXCEPT !.images = MediaPaths(downloaded_paths)]
             ELSE task

\* FileManager.save_task(task, update_image_paths=True) of the older
\* package, up to the writes: listing is what media_dir.iterdir() gives
\* (<<>> also when the directory does not exist).
LegacySaveTask(task, listing) ==
    IF task.images = <<>> THEN task
    ELSE LET kept == IF HasKey(task.metadata, "original_image_urls") THEN task
                     ELSE SetMetadata(task, "original_image_urls", PyListVal(task.images))
         IN  IF listing # <<>> THEN [kept EXCEPT !.images = MediaPaths(listing)] ELSE kept

\* The parsers a Task is followed with.
LifecycleParsers ==
    {ParserOf("DefaultParser", "physics"), ParserOf("PhysicsParser", "physics"),
     ParserOf("MathProfParser", "math_prof"), ParserOf("RussianParser", "russian"),
     ParserOf("FIPIParser", "physics")}

\* The Tasks the Task(...) call of a parser can make: each answer shape,
\* with and without unit, formulas, KES codes, images and a long text.
ImageUrls ==
    {<<"docs", "/", "a.gif">>, <<"/", "docs", "/", "Graph", "7.png">>,
     <<"https:", "/", "/", "ege.fipi.ru", "/", "img", "?", "id=3">>}
CreatedTasks(subject) ==
    LET shapes == {Classification(SHORT_ANSWER, AnswerData(unit, None, None, None)) :
                       unit \in {None, Some(<<>>), Some(<<"cyr_em", "/", "cyr_es">>), Some(<<"m">>)}}
                  \cup {Classification(MULTIPLE_CHOICE,
                            AnswerData(None, Some(<<AnswerVariant(0, <<"x">>, TestName(0))>>), None, None)),
                        Classification(MATCHING,
                            AnswerData(None, None,
                                Some(<<MatchingOption(<<"cyrA">>, <<"v">>, SelectName(0))>>),
                                Some(<<MatchingChoice(<<"1">>, <<"c">>)>>)))}
        texts == {<<"q">>, [i \in 1..(SourceTextThreshold + 1) |-> "q"]}
        htmls == {<<"<td>", "q", "</td>">>, <<"<td>", "m:math", "</td>">>}
        kes == {<<>>, << <<"2.1", "cyrAlgebra">> >>, << <<"5", "cyrOrfografiya">>, <<"k">> >>}
    IN  {Task(<<"G">>, <<"4", "7", "4", "F">>, subject, shape.task_type, text, html,
              images, codes, shape.data) :
            shape \in shapes, text \in texts, html \in htmls, codes \in kes,
            images \in {q \in SeqsUpTo(ImageUrls, MaxImages) :
                           \A i, j \in 1..Len(q) : i < j => q[i] # q[j]}}

LifecycleInit ==
    /\ CheckIdle /\ FormatIdle /\ ParseIdle /\ FactoryIdle /\ PagesIdle /\ SaveIdle /\ PersistIdle
    /\ lcParser \in LifecycleParsers
    /\ lcCreated \in CreatedTasks(lcParser.subject)
    /\ lcTask = lcCreated
    /\ lcPc = IF lcParser.cls = "FIPIParser" THEN "parsed" ELSE "created"

\* "task = self.post_process_task(task)" at the end of parse_task_block
PostProcessTask ==
    /\ lcPc = "created"
    /\ lcTask' = PostProcessOf(lcParser, lcTask)
    /\ lcPc' = "parsed"
    /\ UNCHANGED <<lcParser, lcCreated, checkVars, formatVars, parseVars, factoryVars, pagesVars, saveVars, persistVars>>

\* The image step of BaseParser.parse_and_save for one task.
DownloadImages ==
    /\ lcPc = "parsed"
    /\ lcParser.cls # "FIPIParser"
    /\ \E download_images \in BOOLEAN, raised \in BOOLEAN,
          got \in [1..Len(lcTask.images) -> BOOLEAN] :
           lcTask' = LocalizeImages(lcTask, download_images, raised, got)
    /\ lcPc' = "localized"
    /\ UNCHANGED <<lcParser, lcCreated, checkVars, formatVars, parseVars, factoryVars, pagesVars, saveVars, persistVars>>

\* The image step of FIPIParser.parse_and_save: FileManager.download_images
\* writes files and leaves the task as it is.
LegacyDownloadImages ==
    /\ lcPc = "parsed"
    /\ lcParser.cls = "FIPIParser"
    /\ lcPc' = "localized"
    /\ UNCHANGED <<lcParser, lcCreated, lcTask, checkVars, formatVars, parseVars, factoryVars, pagesVars, saveVars, persistVars>>

\* file_manager.save_task(task) of fipilib inside try/except: the task is
\* written as it is, or the write raises.
SaveTask ==
    /\ lcPc = "localized"
    /\ lcParser.cls # "FIPIParser"
    /\ lcPc' \in {"saved", "save failed"}
    /\ UNCHANGED <<lcParser, lcCreated, lcTask, checkVars, formatVars, parseVars, factoryVars, pagesVars, saveVars, persistVars>>

\* self.file_manager.save_task(task, update_image_paths=True) of the older
\* package inside try/except.
LegacySave ==
    /\ lcPc = "localized"
    /\ lcParser.cls = "FIPIParser"
    /\ \E listing \in SeqsUpTo({<<"a.gif">>, <<"old.png">>}, MaxImages) :
           lcTask' = LegacySaveTask(lcTask, listing)
    /\ lcPc' \in {"saved", "save failed"}
    /\ UNCHANGED <<lcParser, lcCreated, checkVars, formatVars, parseVars, factoryVars, pagesVars, saveVars, persistVars>>

LifecycleNext ==
    PostProcessTask \/ DownloadImages \/ LegacyDownloadImages \/ SaveTask \/ LegacySave

SpecLifecycle == LifecycleInit /\ [][LifecycleNext]_vars

\* The task without the named fields.
Without(task, fields) == [f \in (DOMAIN task) \ fields |-> task[f]]

IdentityAndShapeKept ==
    lcPc # "idle" => (lcTask.guid = lcCreated.guid /\ lcTask.task_type = lcCreated.task_type)

FrameOfStep ==
    IF lcPc = "created"
    THEN Without(lcTask', {"metadata"}) = Without(lcTask, {"metadata"})
    ELSE Without(lcTask', {"images", "metadata"}) = Without(lcTask, {"images", "metadata"})

\* C16: guid and task_type of a Task stay what they were at creation through
\* post-processing, image download and saving; the post-processing step of
\* a subject changes nothing but metadata, and the download and save steps
\* change nothing but images and metadata.
C16_IdentityAndShapeFrozen ==
    /\ []IdentityAndShapeKept
    /\ [][FrameOfStep]_vars

\* A physics task that went through all steps and had its metadata written
\* and its images replaced by local paths.
C16_Witness ==
    /\ lcPc = "saved"
    /\ lcParser.cls = "PhysicsParser"
    /\ HasKey(lcTask.metadata, "unit_type")
    /\ lcTask.images # lcCreated.images


(***************************************************************************)
(* parse_and_save: one listing page fetched, parsed, and its tasks taken   *)
(* through the image step and the save step one after the other.           *)
(***************************************************************************)

MaxSaveTasks == 2    \* tasks parse_page gives for the page

\* The tasks of the page as parse_page gives them: the n-th with its own
\* guid and with no, one or two images.
PageImages ==
    {<<>>, << <<"docs", "/", "a.gif">> >>,
     << <<"docs", "/", "a.gif">>, <<"/", "docs", "/", "b.png">> >>}
ParsedTask(n, images) ==
    [guid |-> <<"G">> \o NatToStr(n), task_id |-> <<"T">> \o NatToStr(n),
     images |-> images, metadata |-> <<>>]
ParsedPages ==
    {[n \in 1..Len(q) |-> ParsedTask(n, q[n])] : q \in SeqsUpTo(PageImages, MaxSaveTasks)}

SaveInit ==
    /\ CheckIdle /\ FormatIdle /\ ParseIdle /\ FactoryIdle /\ PagesIdle /\ LifecycleIdle /\ PersistIdle
    /\ svRun \in [cls : {"BaseParser", "FIPIParser"}, download_images : BOOLEAN,
                   fetched : BOOLEAN, tasks : ParsedPages]
    /\ svPc = "ready"
    /\ svLog = <<>>
    /\ svSaved = <<>>

\* "html = self.get_questions_page(page, page_size); if not html: return []",
\* then "tasks = self.parse_page(html)" and the loop is entered.
ParseAndSaveFetch ==
    /\ svPc = "ready"
    /\ svPc' = IF ~svRun.fetched \/ svRun.tasks = <<>> THEN "returned" ELSE "loop"
    /\ UNCHANGED <<svRun, svLog, svSaved>>
    /\ UNCHANGED <<checkVars, formatVars, parseVars, factoryVars, pagesVars, lifecycleVars, persistVars>>

\* What one turn of the loop did to a task: the task before the turn, after
\* the image step and after the save step; whether a download was tried and
\* whether it failed (the step raised, or an image was not fetched); whether
\* save_task returned.
Turn(before, localized, after, tried, failed, saved) ==
    [before |-> before, localized |-> localized, after |-> after,
     tried |-> tried, failed |-> failed, saved |-> saved]

\* "if download_images and task.images"
DownloadTried(download_images, task) == download_images /\ task.images # <<>>

\* The loop has handled every task of the page.
LastTurn == Len(svLog) + 1 = Len(svRun.tasks)

\* One turn of the loop of BaseParser.parse_and_save: the image step inside
\* its try/except, then save_task inside its try/except and
\* saved_tasks.append(task) when it returned.
ParseAndSaveTurn ==
    /\ svPc = "loop" /\ svRun.cls = "BaseParser"
    /\ LET task == svRun.tasks[Len(svLog) + 1] IN
       \E raised \in BOOLEAN, got \in [1..Len(task.images) -> BOOLEAN], saved \in BOOLEAN :
           LET tried == DownloadTried(svRun.download_images, task)
               localized == LocalizeImages(task, svRun.download_images, raised, got)
               failed == tried /\ (raised \/ \E k \in 1..Len(task.images) : ~got[k])
           IN  /\ svLog' = Append(svLog, Turn(task, localized, localized, tried, failed, saved))
               /\ svSaved' = IF saved THEN Append(svSaved, localized) ELSE svSaved
               /\ svPc' = IF LastTurn THEN "returned" ELSE "loop"
    /\ UNCHANGED <<svRun, checkVars, formatVars, parseVars, factoryVars, pagesVars, lifecycleVars, persistVars>>

\* FileManager.download_images of the older package: every image fetched is
\* written under os.path.basename of its URL (the URLs of these pages end in
\* a file name); a failure of one image is caught inside the loop.
LegacyDownloaded(images, got) ==
    {LastSegment(AbsoluteUrl(images[k])) : k \in {j \in 1..Len(images) : got[j]}}

\* media_dir.iterdir(): the files of the directory, in any order.
Listings(names) ==
    {q \in SeqsUpTo(names, Cardinality(names)) :
        /\ Len(q) = Cardinality(names)
        /\ \A i, j \in 1..Len(q) : i # j => q[i] # q[j]}

\* One turn of the loop of FIPIParser.parse_and_save: download_images leaves
\* the task as it is, save_task(task, update_image_paths=True) rewrites
\* task.images from the media directory, which holds what was downloaded
\* now and what an earlier run left there.
LegacyParseAndSaveTurn ==
    /\ svPc = "loop" /\ svRun.cls = "FIPIParser"
    /\ LET task == svRun.tasks[Len(svLog) + 1] IN
       \E got \in [1..Len(task.images) -> BOOLEAN], left \in SUBSET {<<"old.png">>},
          saved \in BOOLEAN :
           LET tried == DownloadTried(svRun.download_images, task)
               written == IF tried THEN LegacyDownloaded(task.images, got) ELSE {}
               failed == tried /\ \E k \in 1..Len(task.images) : ~got[k]
           IN  \E listing \in Listings(written \cup left) :
               LET after == LegacySaveTask(task, listing)
               IN  /\ svLog' = Append(svLog, Turn(task, task, after, tried, failed, saved))
                   /\ svSaved' = IF saved THEN Append(svSaved, after) ELSE svSaved
                   /\ svPc' = IF LastTurn THEN "returned" ELSE "loop"
    /\ UNCHANGED <<svRun, checkVars, formatVars, parseVars, factoryVars, pagesVars, lifecycleVars, persistVars>>

SaveNext == ParseAndSaveFetch \/ ParseAndSaveTurn \/ LegacyParseAndSaveTurn

SpecSave == SaveInit /\ [][SaveNext]_vars


(***************************************************************************)
(* Properties of parse_and_save                                            *)
(***************************************************************************)

\* The guids of a list of tasks.
GuidsOf(tasks) == [i \in 1..Len(tasks) |-> tasks[i].guid]

\* The guids of the tasks of the turns in which save_task returned.
RECURSIVE SavedGuids(_)
SavedGuids(log) ==
    IF log = <<>> THEN <<>>
    ELSE (IF Head(log).saved THEN <<Head(log).before.guid>> ELSE <<>>) \o SavedGuids(Tail(log))

\* C29 as stated: parse_and_save returns exactly the parsed tasks whose save
\* succeeded, in page order; a task whose image download failed is still
\* taken to the save step, with its images unchanged; a failed save drops
\* only that task and the following tasks are still handled; a failed
\* fetch gives the empty list with nothing parsed or saved.
C29_AsStated ==
    svPc = "returned" =>
        IF ~svRun.fetched THEN svSaved = <<>> /\ svLog = <<>>
        ELSE /\ Len(svLog) = Len(svRun.tasks)
             /\ GuidsOf(svSaved) = SavedGuids(svLog)
             /\ \A i \in 1..Len(svLog) :
                    (svLog[i].failed /\ svLog[i].saved)
                        => svLog[i].after.images = svLog[i].before.images


(***************************************************************************)
(* Persistence: Task.to_dict, Task.from_dict, and FileManager.save_task    *)
(* followed by load_task.  A TaskType member is one of the names           *)
(* SHORT_ANSWER, ...; its .value is a Python string.  A dataclass instance *)
(* is a record of its fields; the dict asdict() makes of it carries the    *)
(* same keys and is marked as a dict.                                      *)
(***************************************************************************)

EXTENDED_ANSWER == "extended_answer"
TaskTypeMembers == {SHORT_ANSWER, MULTIPLE_CHOICE, MATCHING, EXTENDED_ANSWER}

\* member.value
TaskTypeValue(member) ==
    CASE member = SHORT_ANSWER    -> <<"short", "_", "answer">>
      [] member = MULTIPLE_CHOICE -> <<"multiple", "_", "choice">>
      [] member = MATCHING        -> <<"matching">>
      [] member = EXTENDED_ANSWER -> <<"extended", "_", "answer">>

\* TaskType(value): the member with that value, ValueError without one.
TaskType(value) ==
    IF \E m \in TaskTypeMembers : TaskTypeValue(m) = value
    THEN Returned(CHOOSE m \in TaskTypeMembers : TaskTypeValue(m) = value)
    ELSE Raised(ValueError)

\* asdict() of a nested dataclass instance, and cls(**d) of such a dict.
AsDict(obj) == [k \in (DOMAIN obj) \cup {"is_dict"} |-> IF k = "is_dict" THEN TRUE ELSE obj[k]]
FromKeywords(d) == [k \in (DOMAIN d) \ {"is_dict"} |-> d[k]]

\* asdict() of an Optional[List[dataclass]] field
AsDictList(field) ==
    IF field.some THEN Some([i \in 1..Len(field.v) |-> AsDict(field.v[i])]) ELSE field

\* "if data.get(key): data[key] = [Cls(**v) for v in data[key]]"
RebuildList(field) ==
    IF field.some /\ field.v # <<>>
    THEN Some([i \in 1..Len(field.v) |-> FromKeywords(field.v[i])])
    ELSE field

\* Task.to_dict
to_dict(self) ==
    [self EXCEPT !.answer_variants = AsDictList(self.answer_variants),
                 !.matching_options = AsDictList(self.matching_options),
                 !.matching_choices = AsDictList(self.matching_choices),
                 !.task_type = [value |-> TaskTypeValue(self.task_type)]]

\* Task.from_dict
FromDictKeepingDicts(data) ==
    LET task_type == TaskType(data.task_type.value) IN
    IF ~task_type.ok THEN task_type
    ELSE Returned([data EXCEPT !.task_type = task_type.v])
from_dict(data) ==
    LET task_type == TaskType(data.task_type.value) IN
    IF ~task_type.ok THEN task_type
    ELSE Returned([data EXCEPT !.task_type = task_type.v,
                               !.answer_variants = RebuildList(data.answer_variants),
                               !.matching_options = RebuildList(data.matching_options),
                               !.matching_choices = RebuildList(data.matching_choices)])

\* json.dumps(data, ensure_ascii=False, indent=2) written to task.json and
\* json.load of that file: strings (Cyrillic included), ints, booleans,
\* None, lists and dicts with string keys come back as they were written.
\* The metadata values (str, int, bool) are written as JSON strings,
\* numbers and the literals true / false, and read back from them.
JsonDump(x) ==
    CASE x.kind = "str"  -> [json |-> "string", chars |-> x.s]
      [] x.kind = "int"  -> [json |-> "number", digits |-> IntToStr(x.n)]
      [] x.kind = "bool" -> [json |-> IF x.b THEN "true" ELSE "false"]
JsonNumber(digits) ==
    CHOOSE n \in 0..(MaxImages + MaxVariants) : IntToStr(n) = digits
JsonLoad(j) ==
    CASE j.json = "string" -> PyStrVal(j.chars)
      [] j.json = "number" -> PyIntVal(JsonNumber(j.digits))
      [] j.json = "true"   -> PyBoolVal(TRUE)
      [] j.json = "false"  -> PyBoolVal(FALSE)
to_json(data) ==
    [file |-> "task.json",
     json |-> [data EXCEPT !.metadata =
                  [i \in 1..Len(data.metadata) |->
                      Item(data.metadata[i].k, JsonDump(data.metadata[i].val))]]]
json_load(file) ==
    [file.json EXCEPT !.metadata =
        [i \in 1..Len(file.json.metadata) |->
            Item(file.json.metadata[i].k, JsonLoad(file.json.metadata[i].val))]]

\* FileManager.save_task then FileManager.load_task of the directory
\* save_task returned: written tells whether the writes went through.
SaveThenLoad(task, written) ==
    IF written THEN from_dict(json_load(to_json(to_dict(task)))) ELSE Raised("OSError")

\* The Tasks converted: those a parser makes, after the subject's
\* post-processing (metadata written), and Tasks with an empty option list
\* and of the extended-answer shape.
PersistTasks ==
    LET made == UNION {{PostProcessOf(p, t) : t \in CreatedTasks(p.subject)} :
                          p \in LifecycleParsers}
        plain == Task(<<"G">>, <<"4", "7">>, "physics", EXTENDED_ANSWER, <<"q">>,
                      <<"<td>", "q", "</td>">>, <<>>, <<>>, NoAnswerData)
    IN  made \cup {plain,
                   [plain EXCEPT !.task_type = MULTIPLE_CHOICE, !.answer_variants = Some(<<>>)],
                   [plain EXCEPT !.task_type = MATCHING, !.matching_options = Some(<<>>),
                                 !.matching_choices = Some(<<>>)]}

PersistInit ==
    /\ CheckIdle /\ FormatIdle /\ ParseIdle /\ FactoryIdle /\ PagesIdle
    /\ LifecycleIdle /\ SaveIdle
    /\ ptReq \in [fn : {"from_dict", "load_task"}, task : PersistTasks]
    /\ ptPc = "ready"
    /\ ptOut = NotCalled

\* Task.from_dict(t.to_dict())
RoundTrip ==
    /\ ptPc = "ready" /\ ptReq.fn = "from_dict"
    /\ ptOut' = from_dict(to_dict(ptReq.task))
    /\ ptPc' = "returned"
    /\ UNCHANGED <<ptReq, checkVars, formatVars, parseVars, factoryVars, pagesVars, lifecycleVars, saveVars>>

\* file_manager.load_task(file_manager.save_task(t)['directory'])
SaveAndLoad ==
    /\ ptPc = "ready" /\ ptReq.fn = "load_task"
    /\ \E written \in BOOLEAN : ptOut' = SaveThenLoad(ptReq.task, written)
    /\ ptPc' = "returned"
    /\ UNCHANGED <<ptReq, checkVars, formatVars, parseVars, factoryVars, pagesVars, lifecycleVars, saveVars>>

PersistNext == RoundTrip \/ SaveAndLoad

SpecPersist == PersistInit /\ [][PersistNext]_vars


(***************************************************************************)
(* Properties of persistence                                               *)
(***************************************************************************)

\* C30: Task.from_dict(t.to_dict()) has the fields of t with equal values,
\* one by one, and a Task that was saved and loaded again has the guid,
\* the task_type and the answer fields of the Task that was saved.
C30_PersistenceRoundTrip ==
    (ptPc = "returned" /\ ptOut.ok) =>
        LET t == ptReq.task
            back == ptOut.v
        IN  IF ptReq.fn = "from_dict"
            THEN DOMAIN back = DOMAIN t /\ \A f \in DOMAIN t : back[f] = t[f]
            ELSE /\ back.guid = t.guid /\ back.task_type = t.task_type
                 /\ back.answer_unit = t.answer_unit
                 /\ back.answer_variants = t.answer_variants
                 /\ back.matching_options = t.matching_options
                 /\ back.matching_choices = t.matching_choices

\* A multiple-choice Task with an option, images, KES codes and metadata
\* written by the subject's post-processing came back from
\* Task.from_dict(t.to_dict()).
C30_Witness ==
    /\ ptPc = "returned" /\ ptReq.fn = "from_dict" /\ ptOut.ok
    /\ ptReq.task.task_type = MULTIPLE_CHOICE
    /\ ptReq.task.answer_variants.some /\ ptReq.task.answer_variants.v # <<>>
    /\ ptReq.task.images # <<>> /\ ptReq.task.kes_codes # <<>>
    /\ ptReq.task.metadata # <<>>
    /\ ptOut.v.answer_variants.v[1].input_name = TestName(0)


====
